---- MODULE Spec2Model ----
(***************************************************************************)
(* A model of phenixrizen/scout: the per-endpoint monitoring loop          *)
(* (Service.Scout and the checkers, src/service.go lines 98-466) and the   *)
(* registry (Scout, src/unnamed/part_000 lines 14-153).                    *)
(*                                                                         *)
(* Goroutines are the entries of `loops`; the Running channels made by     *)
(* Service.Start are the entries of `chans`; the unbuffered Responses      *)
(* channel is a rendezvous between a loop blocked at pc = "send" and the   *)
(* consumer (Receive).  Time is an integer clock `now`.                    *)
(***************************************************************************)
EXTENDS Integers, Sequences, FiniteSets, TLC

\* ------------------------------------------------------------------ bounds
MaxTime == 2          \* the clock stops advancing here
MaxOutcomes == 4      \* outcomes the consumer takes from one endpoint
MaxAttempts == 3      \* cap of RetryAttempts
MaxTrace == 2         \* cap of len(TraceData)
MaxChans == 3         \* Running channels ever made
NumLoops == 2         \* goroutines alive at once in the registry model
RandDen == 2          \* rand.Float64() is r / RandDen, r in 0..RandDen-1
LongInterval == 2     \* the nonzero check interval
JitterLo == 1         \* a retry interval pair with min < max
JitterHi == 3
MaxReaders == 1       \* read locks held on the registry mutex
MaxCalls == 3         \* calls the callers of the package make
MaxTimeoutSecs == 10  \* the longest configured timeout, in seconds
NumCallers == 2       \* goroutines that call the registry concurrently
CheckTime == 1        \* the fixed duration of a check in the timing model
Horizon == 12         \* the clock of the timing model stops here

\* ------------------------------------------------------- program constants
NilUUID == 0          \* uuid.Nil
NilObj == 0           \* a nil *Service
NilChan == 0          \* a nil channel
NoLatency == -1       \* the "unmeasured" network latency
StatusOK == 200       \* the expected HTTP status of the examples
Second == 1000000000  \* time.Second, in nanoseconds

Objs == 1..4          \* the Service objects the caller has allocated
UUIDs == 0..2
ChanIds == 1..MaxChans
LoopIds == 1..NumLoops
CallerIds == 1..NumCallers
Types == {"http", "tcp", "udp", "icmp", "other"}
Intervals == {0, LongInterval}
RetryPairs == {<<0, 0>>, <<JitterLo, JitterHi>>, <<JitterHi, JitterLo>>}
RetryMaxes == {0, 1, 3}
RTTs == {0, 1}
Statuses == {StatusOK, 404}   \* the answers of an HTTP server

VARIABLES
    svc,        \* [Objs -> Service]: the fields of each Service
    chans,      \* [ChanIds -> {"unalloc", "open", "closed"}]
    loops,      \* [LoopIds -> goroutine running Service.Scout]
    scout,      \* the registry: [Services, Running] and its mutex
    now,        \* the clock
    stats,      \* [Objs -> history of the outcomes it made and the consumer got]
    panicked,   \* a goroutine has panicked (the process is gone)
    callers,    \* [CallerIds -> a goroutine inside a call of the registry]
    act         \* the call that made the last step

vars == <<svc, chans, loops, scout, now, stats, panicked, callers, act>>

\* ------------------------------------------------------------- data types
\* type Service struct, src/service.go:59-96 (the fields the loop uses)
Configs ==
    { c \in [Type : Types, Interval : Intervals, Retry : BOOLEAN,
             RetryMinInterval : {0, JitterLo, JitterHi},
             RetryMaxInterval : {0, JitterLo, JitterHi},
             RetryMax : RetryMaxes, Expected : {"", "pat"},
             ExpectedStatus : {StatusOK}, Trace : BOOLEAN] :
        /\ <<c.RetryMinInterval, c.RetryMaxInterval>> \in RetryPairs
        /\ ~c.Retry => /\ c.RetryMinInterval = 0 /\ c.RetryMaxInterval = 0
                       /\ c.RetryMax = 0
        /\ c.Type # "http" => c.Expected = "" }

\* ------------------------------------------------------ 64-bit durations
\* A time.Duration is an int64 count of nanoseconds.  It is kept as its 8
\* bytes, least significant first, so that a product wraps as Go's does.
RECURSIVE Bytes(_, _)
Bytes(n, k) == IF k = 0 THEN <<>> ELSE <<n % 256>> \o Bytes(n \div 256, k - 1)

\* int64(n) for a small natural n
Int64(n) == Bytes(n, 8)

RECURSIVE Conv(_, _, _, _)
Conv(a, b, k, i) ==
    IF i > k THEN 0 ELSE a[i] * b[k + 1 - i] + Conv(a, b, k, i + 1)

RECURSIVE MulFrom(_, _, _, _)
MulFrom(a, b, k, carry) ==
    IF k > Len(a) THEN <<>>
    ELSE LET s == carry + Conv(a, b, k, 1)
         IN <<s % 256>> \o MulFrom(a, b, k + 1, s \div 256)

\* a * b of two int64: the low 64 bits of the product
Mul64(a, b) == MulFrom(a, b, 1, 0)

\* the product of two non-negative int64 does not fit in an int64
Overflows(a, b) ==
    LET wide(x) == x \o [i \in 1..8 |-> 0]
        p == MulFrom(wide(a), wide(b), 1, 0)
    IN (\E i \in 9..16 : p[i] # 0) \/ p[8] >= 128

\* Duration(n * time.Second), as src/service.go:152 and time.ParseDuration
\* make it
Seconds(n) == Mul64(Int64(n), Int64(Second))

\* a Service literal with configuration c and identifier id: every runtime
\* field has Go's zero value
NewService(id, c) ==
    [ID |-> id, Type |-> c.Type, Interval |-> c.Interval, Retry |-> c.Retry,
     RetryMinInterval |-> c.RetryMinInterval,
     RetryMaxInterval |-> c.RetryMaxInterval, RetryMax |-> c.RetryMax,
     Expected |-> c.Expected, ExpectedStatus |-> c.ExpectedStatus,
     Trace |-> c.Trace,
     Online |-> FALSE, NetworkLatency |-> 0, LastStatusCode |-> 0,
     DownText |-> "", TraceData |-> 0, RetryAttempts |-> 0,
     Running |-> NilChan, Checkpoint |-> 0, SleepDuration |-> 0,
     Responses |-> "nil", Timeout |-> Int64(0)]

\* ServiceSuccess / ServiceFailure, src/unnamed/part_000:22-37
NoOutcome ==
    [kind |-> "none", Service |-> NilUUID, Issue |-> "", NetworkLatency |-> 0,
     RetriesExhausted |-> FALSE, ErrorCode |-> 0, TraceData |-> 0,
     CreatedAt |-> 0, seq |-> 0]

\* what the network answers to one check
In0 == [dns |-> "ok", probe |-> "reply", dial |-> "ok", req |-> "ok",
        status |-> StatusOK, match |-> TRUE, rtt |-> 0, nips |-> 0]

\* a goroutine slot: pc "none" is a slot no goroutine uses; net is what the
\* checker's local variables (err, res, rtt) hold of the network's answer,
\* timeout the time limit its check gave to the network call
NoLoop ==
    [pc |-> "none", o |-> NilObj, ch |-> NilChan, wake |-> 0, first |-> FALSE,
     out |-> NoOutcome, ret |-> "", pubs |-> 0, net |-> In0,
     timeout |-> Int64(0)]

NoStats ==
    [n |-> 0, streak |-> 0, exhaustedAt |-> 0, made |-> 0, last |-> 0,
     at |-> 0]

\* a goroutine of the caller: where it is inside a registry call (pc), the
\* argument of the call, the lock of s.mux it holds ("", "r" or "w"), the
\* keys its range over s.Services has still to visit, and the slice the last
\* GetServices returned to it
NoCaller == [pc |-> "idle", arg |-> 0, lock |-> "", it |-> {}, servs |-> {}]

\* `act` names the last call a caller of the package made, with its argument
\* o, what the call found (b) and the number of calls made so far (k); every
\* step of a goroutine, of the clock or of the consumer leaves Internal
NoAct == [op |-> "init", o |-> 0, b |-> FALSE, k |-> 0]

Internal == [NoAct EXCEPT !.op = "step", !.k = act.k]

Called(op, o, b) == [op |-> op, o |-> o, b |-> b, k |-> act.k + 1]

World == [svc |-> svc, chans |-> chans, loops |-> loops, scout |-> scout,
          now |-> now, panicked |-> panicked, callers |-> callers,
          stats |-> stats]

\* the values a call leaves in the state
Commit(w) ==
    /\ svc' = w.svc
    /\ chans' = w.chans
    /\ loops' = w.loops
    /\ scout' = w.scout
    /\ now' = w.now
    /\ panicked' = w.panicked
    /\ callers' = w.callers
    /\ stats' = w.stats

Alive(lp) == lp.pc \notin {"none", "done"}

\* ---------------------------------------------------------------- channels
\* close(c): panics on a nil or closed channel; a goroutine blocked in the
\* select of Scout on c takes the `case <-s.Running` branch and leaves the
\* loop (src/service.go:162-164)
Close(w, c) ==
    IF c = NilChan \/ w.chans[c] # "open"
    THEN [w EXCEPT !.panicked = TRUE]
    ELSE [w EXCEPT !.chans[c] = "closed",
                   !.loops = [l \in LoopIds |->
                       IF w.loops[l].pc = "wait" /\ w.loops[l].ch = c
                       THEN [w.loops[l] EXCEPT !.pc = "done"]
                       ELSE w.loops[l]]]

\* IsRunning, src/service.go:125-135
IsRunning(w, o) ==
    IF w.svc[o].Running = NilChan THEN FALSE
    ELSE IF w.chans[w.svc[o].Running] = "closed" THEN FALSE
    ELSE TRUE

\* the Running channel of o exists and is open: its loop can still be
\* signalled
SignalOpen(w, o) ==
    w.svc[o].Running # NilChan /\ w.chans[w.svc[o].Running] = "open"

\* the Running channel of o has been closed
Signalled(w, o) ==
    w.svc[o].Running # NilChan /\ w.chans[w.svc[o].Running] = "closed"

\* Stop without the IsRunning test
Stop_NoGuard(w, o) == Close(w, w.svc[o].Running)

\* Stop, src/service.go:118-122
Stop(w, o) ==
    IF IsRunning(w, o) THEN Close(w, w.svc[o].Running) ELSE w

HasFreeChan(w) == \E c \in ChanIds : w.chans[c] = "unalloc"

FreeChan(w) ==
    CHOOSE c \in ChanIds :
        /\ w.chans[c] = "unalloc"
        /\ \A d \in ChanIds : d < c => w.chans[d] # "unalloc"

\* Start, src/service.go:113-115
Start(w, o) ==
    LET c == FreeChan(w) IN
    [w EXCEPT !.chans[c] = "open", !.svc[o].Running = c]

\* ------------------------------------------------------ outcome reporting
\* a send that does not wait for the consumer
Send_NoBlock(w, l, x, ret) ==
    LET o == w.loops[l].o IN
    [w EXCEPT !.loops[l] = [@ EXCEPT !.pc = IF ret = "dial" THEN "dial"
                                           ELSE "after",
                               !.pubs = @ + 1],
              !.stats[o].made = @ + 1]

\* the blocking send `s.Responses <- x`: the goroutine stays at pc "send"
\* until a consumer receives (src/service.go:373 and 401)
Send(w, l, x, ret) ==
    LET o == w.loops[l].o IN
    [w EXCEPT !.loops[l] = [@ EXCEPT !.pc = "send", !.ret = ret, !.pubs = @ + 1,
                               !.out = [x EXCEPT !.seq = w.stats[o].made + 1]],
              !.stats[o].made = @ + 1]

\* Success without the reset of RetryAttempts
Success_NoReset(w, l, ret) ==
    LET o == w.loops[l].o
        suc == [NoOutcome EXCEPT !.kind = "S", !.Service = w.svc[o].ID,
                   !.NetworkLatency = w.svc[o].NetworkLatency,
                   !.CreatedAt = w.now]
    IN Send([w EXCEPT !.svc[o].Online = TRUE], l, suc, ret)

\* Success, src/service.go:363-374
Success(w, l, ret) ==
    LET o == w.loops[l].o
        w1 == [w EXCEPT !.svc[o].RetryAttempts = 0]
        suc == [NoOutcome EXCEPT !.kind = "S", !.Service = w1.svc[o].ID,
                   !.NetworkLatency = w1.svc[o].NetworkLatency,
                   !.CreatedAt = w.now]
        w2 == [w1 EXCEPT !.svc[o].Online = TRUE]
    IN Send(w2, l, suc, ret)

\* Failure without the test that RetryMax is not zero
Failure_NoZeroTest(w, l, issue, nips, ret) ==
    LET o == w.loops[l].o
        exhausted == w.svc[o].RetryAttempts = w.svc[o].RetryMax
        w1 == IF exhausted THEN Stop(w, o) ELSE w
        fail == [NoOutcome EXCEPT !.kind = "F", !.Service = w1.svc[o].ID,
                    !.Issue = issue,
                    !.NetworkLatency = w1.svc[o].NetworkLatency,
                    !.RetriesExhausted = exhausted,
                    !.CreatedAt = w.now,
                    !.ErrorCode = w1.svc[o].LastStatusCode]
        w2 == IF w1.svc[o].Trace
              THEN [w1 EXCEPT !.svc[o].TraceData = @ + nips]
              ELSE w1
        w3 == [w2 EXCEPT !.svc[o].Online = FALSE, !.svc[o].DownText = issue]
    IN Send(w3, l, [fail EXCEPT !.TraceData = w3.svc[o].TraceData], ret)

\* Failure that leaves Online as it was
Failure_KeepOnline(w, l, issue, nips, ret) ==
    LET o == w.loops[l].o
        exhausted == /\ w.svc[o].RetryAttempts = w.svc[o].RetryMax
                     /\ w.svc[o].RetryMax # 0
        w1 == IF exhausted THEN Stop(w, o) ELSE w
        fail == [NoOutcome EXCEPT !.kind = "F", !.Service = w1.svc[o].ID,
                    !.Issue = issue,
                    !.NetworkLatency = w1.svc[o].NetworkLatency,
                    !.RetriesExhausted = exhausted,
                    !.CreatedAt = w.now,
                    !.ErrorCode = w1.svc[o].LastStatusCode]
        w2 == IF w1.svc[o].Trace
              THEN [w1 EXCEPT !.svc[o].TraceData = @ + nips]
              ELSE w1
        w3 == [w2 EXCEPT !.svc[o].DownText = issue]
    IN Send(w3, l, [fail EXCEPT !.TraceData = w3.svc[o].TraceData], ret)

\* Failure, src/service.go:377-402; nips is len(s.ips()) of the route trace
Failure(w, l, issue, nips, ret) ==
    LET o == w.loops[l].o
        exhausted == /\ w.svc[o].RetryAttempts = w.svc[o].RetryMax
                     /\ w.svc[o].RetryMax # 0
        w1 == IF exhausted THEN Stop(w, o) ELSE w
        fail == [NoOutcome EXCEPT !.kind = "F", !.Service = w1.svc[o].ID,
                    !.Issue = issue,
                    !.NetworkLatency = w1.svc[o].NetworkLatency,
                    !.RetriesExhausted = exhausted,
                    !.CreatedAt = w.now,
                    !.ErrorCode = w1.svc[o].LastStatusCode]
        w2 == IF w1.svc[o].Trace
              THEN [w1 EXCEPT !.svc[o].TraceData = @ + nips]
              ELSE w1
        w3 == [w2 EXCEPT !.svc[o].Online = FALSE, !.svc[o].DownText = issue]
    IN Send(w3, l, [fail EXCEPT !.TraceData = w3.svc[o].TraceData], ret)

\* int64(f) of a float f = x / d: truncation toward zero
Trunc(x, d) == IF x >= 0 THEN x \div d ELSE -((-x) \div d)

\* a backoff that leaves RetryMinInterval out of the sum
LinearJitterBackoff_NoMin(w, o, r) ==
    LET w1 == [w EXCEPT !.svc[o].RetryAttempts = @ + 1]
        s == w1.svc[o]
        jitter == Trunc(r * (s.RetryMaxInterval - s.RetryMinInterval), RandDen)
    IN [w1 EXCEPT !.svc[o].SleepDuration = jitter * s.RetryAttempts]

\* LinearJitterBackoff, src/service.go:408-428; rand.Float64() = r / RandDen
LinearJitterBackoff(w, o, r) ==
    LET w1 == [w EXCEPT !.svc[o].RetryAttempts = @ + 1]
        s == w1.svc[o]
        w2 == IF s.RetryMaxInterval <= s.RetryMinInterval
              THEN [w1 EXCEPT !.svc[o].SleepDuration =
                                  s.RetryMinInterval * s.RetryAttempts]
              ELSE w1
        jitter == Trunc(r * (s.RetryMaxInterval - s.RetryMinInterval), RandDen)
        jitterMin == jitter + s.RetryMinInterval
    IN [w2 EXCEPT !.svc[o].SleepDuration = jitterMin * s.RetryAttempts]

\* ---------------------------------------------------------------- checkers
InTrace(X) == { [x EXCEPT !.nips = k] : x \in X, k \in 0..1 }

InHTTP ==
    InTrace({[In0 EXCEPT !.dns = "err"], [In0 EXCEPT !.req = "err"]}
            \cup { [In0 EXCEPT !.status = st, !.match = m, !.rtt = t] :
                     st \in Statuses, m \in BOOLEAN, t \in RTTs })

InDial == InTrace({ [In0 EXCEPT !.dial = d] : d \in {"ok", "err", "closeerr"} })

InNet ==
    InTrace({[In0 EXCEPT !.dns = "err"]})
    \cup { [x EXCEPT !.probe = p, !.rtt = t] :
             x \in InDial, p \in {"noips", "err", "reply", "idle"}, t \in RTTs }

InICMP ==
    InTrace({[In0 EXCEPT !.dns = "err"]}
            \cup { [In0 EXCEPT !.probe = p, !.rtt = t] :
                     p \in {"err", "reply", "idle"}, t \in RTTs })

Inputs(type) ==
    CASE type = "http" -> InHTTP
      [] type \in {"tcp", "udp"} -> InNet
      [] type = "icmp" -> InICMP
      [] OTHER -> {In0}

\* Check has returned: the goroutine is back in Scout
Return(w, l) == [w EXCEPT !.loops[l].pc = "after"]

\* CheckICMP that leaves NetworkLatency alone when no reply came
CheckICMP_NoSentinel(w, l, in) ==
    LET o == w.loops[l].o IN
    IF in.dns = "err" THEN Failure(w, l, "dns error", in.nips, "ret")
    ELSE IF in.probe = "err" THEN Failure(w, l, "icmp error", in.nips, "ret")
    ELSE IF in.probe = "reply"
    THEN Success([w EXCEPT !.svc[o].NetworkLatency = in.rtt], l, "ret")
    ELSE Failure(w, l, "icmp idle", in.nips, "ret")

\* CheckICMP, src/service.go:245-278
CheckICMP(w, l, in) ==
    LET o == w.loops[l].o IN
    IF in.dns = "err" THEN Failure(w, l, "dns error", in.nips, "ret")
    ELSE IF in.probe = "err" THEN Failure(w, l, "icmp error", in.nips, "ret")
    ELSE IF in.probe = "reply"
    THEN Success([w EXCEPT !.svc[o].NetworkLatency = in.rtt], l, "ret")
    ELSE Failure([w EXCEPT !.svc[o].NetworkLatency = NoLatency], l,
                 "icmp idle", in.nips, "ret")

\* CheckNet after ping has returned lat, src/service.go:288-310
Dial(w, l, lat, in) ==
    LET o == w.loops[l].o
        w1 == [w EXCEPT !.svc[o].NetworkLatency = lat]
    IN IF in.dial = "err" THEN Failure(w1, l, "dial error", in.nips, "ret")
       ELSE IF in.dial = "closeerr"
       THEN Failure(w1, l, "close error", in.nips, "ret")
       ELSE Success(w1, l, "ret")

\* CheckNet, src/service.go:281-288, with ping, src/service.go:431-466: a
\* probe that cannot run reports a Failure and CheckNet goes on to the dial
CheckNet(w, l, in) ==
    IF in.dns = "err" THEN Failure(w, l, "dns error", in.nips, "ret")
    ELSE IF in.probe = "noips" THEN Dial(w, l, NoLatency, in)
    ELSE IF in.probe = "err" THEN Failure(w, l, "icmp error", in.nips, "dial")
    ELSE IF in.probe = "reply" THEN Dial(w, l, in.rtt, in)
    ELSE Dial(w, l, NoLatency, in)

\* CheckHTTP without the comparison of the status code
CheckHTTP_NoStatusTest(w, l, in) ==
    LET o == w.loops[l].o
        w1 == [w EXCEPT !.svc[o].NetworkLatency = in.rtt,
                        !.svc[o].LastStatusCode = in.status]
    IN IF in.dns = "err" THEN Failure(w, l, "dns error", in.nips, "ret")
       ELSE IF in.req = "err" THEN Failure(w, l, "http error", in.nips, "ret")
       ELSE IF w1.svc[o].Expected # "" /\ ~in.match
       THEN Failure(w1, l, "body mismatch", in.nips, "ret")
       ELSE Success(w1, l, "ret")

\* CheckHTTP, src/service.go:313-360
CheckHTTP(w, l, in) ==
    LET o == w.loops[l].o
        w1 == [w EXCEPT !.svc[o].NetworkLatency = in.rtt,
                        !.svc[o].LastStatusCode = in.status]
    IN IF in.dns = "err" THEN Failure(w, l, "dns error", in.nips, "ret")
       ELSE IF in.req = "err" THEN Failure(w, l, "http error", in.nips, "ret")
       ELSE IF w1.svc[o].Expected # "" /\ ~in.match
       THEN Failure(w1, l, "body mismatch", in.nips, "ret")
       ELSE IF w1.svc[o].ExpectedStatus # in.status
       THEN Failure(w1, l, "bad status", in.nips, "ret")
       ELSE Success(w1, l, "ret")

\* Check, src/service.go:138-147
Check(w, l, in) ==
    LET type == w.svc[w.loops[l].o].Type IN
    CASE type = "http" -> CheckHTTP(w, l, in)
      [] type \in {"tcp", "udp"} -> CheckNet(w, l, in)
      [] type = "icmp" -> CheckICMP(w, l, in)
      [] OTHER -> Return(w, l)

\* -------------------------------------------------------- the Scout loop
HasFreeLoop(w) == \E l \in LoopIds : ~Alive(w.loops[l])

FreeLoop(w) ==
    CHOOSE l \in LoopIds :
        /\ ~Alive(w.loops[l])
        /\ \A k \in LoopIds : k < l => Alive(w.loops[k])

\* `go serv.Scout()`: a new goroutine that has not yet run
Spawn(w, o) ==
    [w EXCEPT !.loops[FreeLoop(w)] = [NoLoop EXCEPT !.pc = "start", !.o = o]]

\* Scout up to its first Check, leaving the checkpoint as it was
ScoutBegin_NoAnchor(w, l) ==
    LET o == w.loops[l].o
        w0 == [w EXCEPT !.svc[o].Timeout =
                            IF @ = Int64(0) THEN Seconds(1) ELSE @]
        w1 == Start(w0, o)
    IN [w1 EXCEPT !.loops[l] = [@ EXCEPT !.pc = "check", !.first = TRUE,
                                         !.pubs = 0]]

\* Scout up to its first Check, src/service.go:150-157
ScoutBegin(w, l) ==
    LET o == w.loops[l].o
        w0 == [w EXCEPT !.svc[o].Timeout =
                            IF @ = Int64(0) THEN Seconds(1) ELSE @]
        w1 == Start(w0, o)
    IN [w1 EXCEPT !.svc[o].Checkpoint = w.now,
                  !.loops[l] = [@ EXCEPT !.pc = "check", !.first = TRUE,
                                         !.pubs = 0]]

\* Scout after a Check has returned, with the sleep of an online endpoint
\* taken from the checkpoint
ScoutAfter_Anchored(w, l, r) ==
    LET o == w.loops[l].o
        w1 == [w EXCEPT !.svc[o].Checkpoint = @ + w.svc[o].Interval]
        sleep == w1.svc[o].Checkpoint - w.now
        w2 == IF w1.svc[o].Online
              THEN [w1 EXCEPT !.svc[o].SleepDuration = sleep]
              ELSE IF w1.svc[o].Retry
              THEN LinearJitterBackoff(w1, o, r)
              ELSE [w1 EXCEPT !.svc[o].SleepDuration = sleep]
        w3 == IF w.loops[l].first
              THEN [w EXCEPT !.svc[o].SleepDuration = w.svc[o].Interval]
              ELSE w2
    IN [w3 EXCEPT !.loops[l] = [@ EXCEPT !.pc = "select", !.first = FALSE]]

\* Scout after a Check has returned, leaving the loop when the endpoint is
\* offline
ScoutAfter_BreakOffline(w, l, r) ==
    LET o == w.loops[l].o
        w1 == [w EXCEPT !.svc[o].Checkpoint = @ + w.svc[o].Interval]
        w2 == [w1 EXCEPT !.svc[o].SleepDuration = w1.svc[o].Interval]
        w3 == IF w.loops[l].first
              THEN [w EXCEPT !.svc[o].SleepDuration = w.svc[o].Interval]
              ELSE w2
    IN [w3 EXCEPT !.loops[l] = [@ EXCEPT !.pc = IF w.svc[o].Online
                                                 THEN "select" ELSE "done",
                                         !.first = FALSE]]

\* Scout after a Check has returned: src/service.go:158 after the first
\* check, src/service.go:168-178 after a check of the loop
ScoutAfter(w, l, r) ==
    LET o == w.loops[l].o
        w1 == [w EXCEPT !.svc[o].Checkpoint = @ + w.svc[o].Interval]
        sleep == w1.svc[o].Checkpoint - w.now
        w2 == IF w1.svc[o].Online
              THEN [w1 EXCEPT !.svc[o].SleepDuration = w1.svc[o].Interval]
              ELSE IF w1.svc[o].Retry
              THEN LinearJitterBackoff(w1, o, r)
              ELSE [w1 EXCEPT !.svc[o].SleepDuration = sleep]
        w3 == IF w.loops[l].first
              THEN [w EXCEPT !.svc[o].SleepDuration = w.svc[o].Interval]
              ELSE w2
    IN [w3 EXCEPT !.loops[l] = [@ EXCEPT !.pc = "select", !.first = FALSE]]

\* the select of the loop, src/service.go:161-165: s.Running and
\* time.After(s.SleepDuration) are evaluated, then a ready case is taken
\* (any one of them when both are ready), else the goroutine blocks
StopReady(w, l) ==
    LET c == w.svc[w.loops[l].o].Running IN
    c # NilChan /\ w.chans[c] = "closed"

TimerReady(w, l) == w.svc[w.loops[l].o].SleepDuration <= 0

ScoutSelect(w, l, pick) ==
    LET o == w.loops[l].o
        lp == [w.loops[l] EXCEPT !.ch = w.svc[o].Running,
                                 !.wake = w.now + w.svc[o].SleepDuration]
    IN IF StopReady(w, l) /\ (pick = "stop" \/ ~TimerReady(w, l))
       THEN [w EXCEPT !.loops[l] = [lp EXCEPT !.pc = "done"]]
       ELSE IF TimerReady(w, l)
       THEN [w EXCEPT !.loops[l] = [lp EXCEPT !.pc = "check", !.pubs = 0]]
       ELSE [w EXCEPT !.loops[l] = [lp EXCEPT !.pc = "wait"]]

\* a timer of time.After fires: the blocked goroutine takes the timer case
WakeOnTime(lps, t) ==
    [l \in LoopIds |->
        IF lps[l].pc = "wait" /\ lps[l].wake <= t
        THEN [lps[l] EXCEPT !.pc = "check", !.pubs = 0]
        ELSE lps[l]]

\* the consumer's record of the outcomes of one endpoint
Record(st, x) ==
    [n |-> st.n + 1,
     streak |-> IF x.kind = "F" THEN st.streak + 1 ELSE 0,
     exhaustedAt |-> IF st.exhaustedAt = 0 /\ x.RetriesExhausted
                     THEN st.n + 1 ELSE st.exhaustedAt,
     made |-> st.made, last |-> x.seq, at |-> st.at]

\* ----------------------------------------------------------------- actions
\* the caller runs `go s.Scout()` on endpoint o
GoScout(o) ==
    /\ ~panicked
    /\ \A l \in LoopIds : loops[l].pc = "none"
    /\ Commit(Spawn(World, o))
    /\ act' = Internal

ScoutStart(l) ==
    /\ ~panicked
    /\ loops[l].pc = "start"
    /\ HasFreeChan(World)
    /\ Commit(ScoutBegin(World, l))
    /\ act' = Internal

DoCheck(l, ins) ==
    /\ ~panicked
    /\ loops[l].pc = "check"
    /\ \E in \in Inputs(svc[loops[l].o].Type) \cap ins :
          /\ svc[loops[l].o].Trace =>
                 svc[loops[l].o].TraceData + in.nips <= MaxTrace
          /\ Commit(Check(World, l, in))
    /\ act' = Internal

DoDial(l, ins) ==
    /\ ~panicked
    /\ loops[l].pc = "dial"
    /\ \E in \in InDial \cap ins :
          /\ svc[loops[l].o].Trace =>
                 svc[loops[l].o].TraceData + in.nips <= MaxTrace
          /\ Commit(Dial(World, l, NoLatency, in))
    /\ act' = Internal

\* a consumer takes the outcome of goroutine l from the Responses channel
Receive(l) ==
    /\ ~panicked
    /\ loops[l].pc = "send"
    /\ svc[loops[l].o].Responses # "nil"
    /\ stats[loops[l].o].n < MaxOutcomes
    /\ stats' = [stats EXCEPT ![loops[l].o] = Record(@, loops[l].out)]
    /\ loops' = [loops EXCEPT ![l] =
                    [@ EXCEPT !.pc = IF loops[l].ret = "dial" THEN "dial"
                                     ELSE "after",
                              !.out = NoOutcome, !.ret = ""]]
    /\ act' = Internal
    /\ UNCHANGED <<svc, chans, scout, now, panicked, callers>>

AfterCheck(l) ==
    /\ ~panicked
    /\ loops[l].pc = "after"
    /\ svc[loops[l].o].RetryAttempts < MaxAttempts
    /\ \E r \in 0..(RandDen - 1) : Commit(ScoutAfter(World, l, r))
    /\ act' = Internal

Select(l) ==
    /\ ~panicked
    /\ loops[l].pc = "select"
    /\ \E pick \in {"stop", "timer"} : Commit(ScoutSelect(World, l, pick))
    /\ act' = Internal

\* the clock advances while a goroutine is in a check or asleep in the
\* select
Tick ==
    /\ ~panicked
    /\ now < MaxTime
    /\ \E l \in LoopIds : loops[l].pc \in {"check", "dial", "wait"}
    /\ now' = now + 1
    /\ loops' = WakeOnTime(loops, now + 1)
    /\ act' = Internal
    /\ UNCHANGED <<svc, chans, scout, stats, panicked, callers>>

\* the caller runs s.Stop() on endpoint o
StopCall(o) ==
    /\ ~panicked
    /\ act.k < MaxCalls
    /\ Commit(Stop(World, o))
    /\ act' = Called("Stop", o, SignalOpen(World, o))

\* ------------------------------------------------- one endpoint, one loop
\* the loop is explored without route traces and with one latency value
LoopConfigs ==
    { c \in Configs : ~c.Trace /\ c.Expected = "" /\ c.Type # "udp" }

AllInputs == UNION { Inputs(t) : t \in Types }

LoopInputs ==
    { in \in AllInputs : /\ in.rtt = 0 /\ in.nips = 0
                         /\ in.req = "ok" /\ in.dial # "closeerr"
                         /\ in.probe # "noips" }

\* endpoint 1 as NewScout leaves it (wired to the shared stream), with any
\* configuration; the caller starts its loop once and may stop it
InitLoop ==
    /\ \E c \in LoopConfigs :
          svc = [o \in Objs |->
                    IF o = 1
                    THEN [NewService(1, c) EXCEPT !.Responses = "shared"]
                    ELSE NewService(NilUUID, CHOOSE d \in Configs :
                            d.Type = "http" /\ d.Interval = 0 /\ ~d.Retry
                            /\ d.Expected = "" /\ ~d.Trace)]
    /\ chans = [c \in ChanIds |-> "unalloc"]
    /\ loops = [l \in LoopIds |-> NoLoop]
    /\ scout = [Services |-> [u \in UUIDs |-> IF u = 1 THEN 1 ELSE NilObj],
                Running |-> FALSE, readers |-> 0, waiting |-> FALSE]
    /\ now = 0
    /\ stats = [o \in Objs |-> NoStats]
    /\ panicked = FALSE
    /\ callers = [t \in CallerIds |-> NoCaller]
    /\ act = NoAct

NextLoop ==
    \/ GoScout(1)
    \/ \E l \in LoopIds : ScoutStart(l)
    \/ \E l \in LoopIds : DoCheck(l, LoopInputs)
    \/ \E l \in LoopIds : DoDial(l, LoopInputs)
    \/ \E l \in LoopIds : Receive(l)
    \/ \E l \in LoopIds : AfterCheck(l)
    \/ \E l \in LoopIds : Select(l)
    \/ Tick
    \/ StopCall(1)

Spec == InitLoop /\ [][NextLoop]_vars

\* ------------------------------------------------------------ the registry
\* type Scout struct, src/unnamed/part_000:14-20.  Services maps a UUID to a
\* Service object (NilObj: no entry); mux is the count of read locks held
\* (readers) and whether a writer is blocked in Lock (waiting)
Keys(w) == { u \in UUIDs : w.scout.Services[u] # NilObj }

\* NewScout, src/unnamed/part_000:40-62, with a logger
NewScout(w, servs) ==
    LET at(u) == { i \in 1..Len(servs) : w.svc[servs[i]].ID = u }
        last(S) == CHOOSE i \in S : \A j \in S : j <= i
    IN [w EXCEPT
          !.svc = [o \in Objs |->
                      IF \E i \in 1..Len(servs) : servs[i] = o
                      THEN [w.svc[o] EXCEPT !.Responses = "shared"]
                      ELSE w.svc[o]],
          !.scout = [Services |-> [u \in UUIDs |->
                                      IF at(u) = {} THEN NilObj
                                      ELSE servs[last(at(u))]],
                     Running |-> FALSE, readers |-> 0, waiting |-> FALSE]]

\* s.mux.Lock() returns only when no read lock is held; a caller that cannot
\* get it stays blocked in Lock
MuxLock(w, then) ==
    IF w.scout.readers > 0 THEN [w EXCEPT !.scout.waiting = TRUE] ELSE then

\* AddService with the nil test only
AddService_NoIDTest(w, x) ==
    IF x # NilObj
    THEN LET w1 == [w EXCEPT !.svc[x].Responses = "shared"]
             w2 == [w1 EXCEPT !.scout.Services[w.svc[x].ID] = x]
         IN MuxLock(w1, IF w2.scout.Running THEN Spawn(w2, x) ELSE w2)
    ELSE w

\* AddService, src/unnamed/part_000:65-76
AddService(w, x) ==
    IF x # NilObj /\ w.svc[x].ID # NilUUID
    THEN LET w1 == [w EXCEPT !.svc[x].Responses = "shared"]
             w2 == [w1 EXCEPT !.scout.Services[w.svc[x].ID] = x]
         IN MuxLock(w1, IF w2.scout.Running THEN Spawn(w2, x) ELSE w2)
    ELSE w

\* DelService, src/unnamed/part_000:79-86: s.Services[id] of an absent id is
\* a nil *Service, and Stop on it dereferences nil
DelService(w, u) ==
    IF u # NilUUID
    THEN IF w.scout.Services[u] = NilObj
         THEN [w EXCEPT !.panicked = TRUE]
         ELSE LET w1 == Stop(w, w.scout.Services[u])
              IN MuxLock(w1, [w1 EXCEPT !.scout.Services[u] = NilObj])
    ELSE w

RECURSIVE SpawnAll(_, _)
SpawnAll(w, S) ==
    IF S = {} THEN w
    ELSE LET u == CHOOSE v \in S : \A k \in S : v <= k
         IN SpawnAll(Spawn(w, w.scout.Services[u]), S \ {u})

\* StartScoutingServices without the test of s.Running
StartScoutingServices_NoGuard(w) ==
    [SpawnAll(w, Keys(w)) EXCEPT !.scout.Running = TRUE]

\* StartScoutingServices, src/unnamed/part_000:89-97
StartScoutingServices(w) ==
    IF ~w.scout.Running
    THEN [SpawnAll(w, Keys(w)) EXCEPT !.scout.Running = TRUE]
    ELSE w

RECURSIVE StopAll(_, _)
StopAll(w, S) ==
    IF S = {} THEN w
    ELSE LET u == CHOOSE v \in S : \A k \in S : v <= k
         IN StopAll(Stop(w, w.scout.Services[u]), S \ {u})

\* StopScoutingServices, src/unnamed/part_000:100-108
StopScoutingServices(w) ==
    IF w.scout.Running
    THEN [StopAll(w, Keys(w)) EXCEPT !.scout.Running = FALSE]
    ELSE w

\* GetService, src/unnamed/part_000:133-140: the path that finds the entry
\* returns with the read lock held
GetService(w, u) ==
    IF w.scout.Services[u] # NilObj
    THEN [w EXCEPT !.scout.readers = @ + 1]
    ELSE w

\* GetServices, src/unnamed/part_000:143-153: RLock, copy, RUnlock
GetServices(w) == w

FreeLoops(w) == { l \in LoopIds : ~Alive(w.loops[l]) }

\* ------------------------------------------------------- registry actions
AddServiceCall(x) ==
    /\ ~panicked
    /\ act.k < MaxCalls
    /\ HasFreeLoop(World)
    /\ Commit(AddService(World, x))
    /\ act' = Called("AddService", x, scout.Running)

DelServiceCall(u) ==
    /\ ~panicked
    /\ act.k < MaxCalls
    /\ Commit(DelService(World, u))
    /\ act' = Called("DelService", u, scout.Services[u] # NilObj)

StartScoutingServicesCall ==
    /\ ~panicked
    /\ act.k < MaxCalls
    /\ Cardinality(FreeLoops(World)) >= Cardinality(Keys(World))
    /\ Commit(StartScoutingServices(World))
    /\ act' = Called("StartScoutingServices", 0, scout.Running)

StopScoutingServicesCall ==
    /\ ~panicked
    /\ act.k < MaxCalls
    /\ Commit(StopScoutingServices(World))
    /\ act' = Called("StopScoutingServices", 0, scout.Running)

\* a pending Lock holds back every new RLock
GetServiceCall(u) ==
    /\ ~panicked
    /\ act.k < MaxCalls
    /\ ~scout.waiting
    /\ scout.Services[u] # NilObj => scout.readers < MaxReaders
    /\ Commit(GetService(World, u))
    /\ act' = Called("GetService", scout.Services[u],
                     scout.Services[u] # NilObj)

GetServicesCall ==
    /\ ~panicked
    /\ act.k < MaxCalls
    /\ ~scout.waiting
    /\ Commit(GetServices(World))
    /\ act' = Called("GetServices", 0, FALSE)

\* ------------------------------------------- a registry of ICMP endpoints
\* the clock stands still here: every loop makes its first check and then
\* waits in its select until it is stopped
\* objects 1 and 2 have their own identifiers, object 3 has the identifier
\* of object 1, object 4 has the nil UUID
IDOf(o) == CASE o = 1 -> 1 [] o = 2 -> 2 [] o = 3 -> 1 [] OTHER -> NilUUID

RegConfig ==
    CHOOSE c \in Configs :
        /\ c.Type = "icmp" /\ c.Interval = LongInterval /\ ~c.Retry /\ ~c.Trace

\* every probe of the registry's endpoints is answered
RegInputs ==
    { in \in InICMP : /\ in.dns = "ok" /\ in.probe = "reply"
                      /\ in.rtt = 0 /\ in.nips = 0 }

RegLists == {<<>>, <<1>>, <<1, 2>>, <<3, 1>>}

InitReg ==
    /\ \E servs \in RegLists :
          LET w == NewScout([svc |-> [o \in Objs |-> NewService(IDOf(o), RegConfig)],
                             scout |-> [Services |-> [u \in UUIDs |-> NilObj],
                                        Running |-> FALSE, readers |-> 0,
                                        waiting |-> FALSE]],
                            servs)
          IN svc = w.svc /\ scout = w.scout
    /\ chans = [c \in ChanIds |-> "unalloc"]
    /\ loops = [l \in LoopIds |-> NoLoop]
    /\ now = 0
    /\ stats = [o \in Objs |-> NoStats]
    /\ panicked = FALSE
    /\ callers = [t \in CallerIds |-> NoCaller]
    /\ act = NoAct

NextReg ==
    \/ \E x \in Objs \cup {NilObj} : AddServiceCall(x)
    \/ \E u \in UUIDs : DelServiceCall(u)
    \/ StartScoutingServicesCall
    \/ StopScoutingServicesCall
    \/ \E u \in UUIDs : GetServiceCall(u)
    \/ GetServicesCall
    \/ \E l \in LoopIds : ScoutStart(l)
    \/ \E l \in LoopIds : DoCheck(l, RegInputs)
    \/ \E l \in LoopIds : Receive(l)
    \/ \E l \in LoopIds : AfterCheck(l)
    \/ \E l \in LoopIds : Select(l)

SpecReg == InitReg /\ [][NextReg]_vars

\* ------------------------------ registry calls, statement by statement
\* Callers run the registry's methods concurrently.  A caller at pc p is
\* about to run the statement p names; s.mux is scout.readers (read locks
\* held, the leaked ones included) and the `lock` of each caller.
WriteHeld(w) == \E t \in CallerIds : w.callers[t].lock = "w"

\* the statements that read, range over or write s.Services
ReadPcs == {"del.read", "start.range", "stop.range", "get.read", "list.copy"}

WritePcs == {"add.insert", "del.delete"}

\* the statements that do so with no lock of s.mux held
UnlockedPcs == {"del.read", "start.range", "stop.range"}

\* another caller is reading s.Services with no lock while t writes it
Racing(w, t) ==
    \E t2 \in CallerIds \ {t} : w.callers[t2].pc \in UnlockedPcs

Goto(w, t, pc) == [w EXCEPT !.callers[t].pc = pc]

Return_(w, t) ==
    [w EXCEPT !.callers[t] = [NoCaller EXCEPT !.servs = w.callers[t].servs]]

\* AddService up to s.mux.Lock(), src/unnamed/part_000:66-68
AddServiceWire(w, t, x) ==
    IF x # NilObj /\ w.svc[x].ID # NilUUID
    THEN [w EXCEPT !.svc[x].Responses = "shared",
                   !.callers[t] = [@ EXCEPT !.pc = "add.lock", !.arg = x]]
    ELSE w

\* s.mux.Lock(), src/unnamed/part_000:69 and 82
MuxWLock(w, t, pc) ==
    [w EXCEPT !.callers[t] = [@ EXCEPT !.lock = "w", !.pc = pc]]

\* AddService under the lock, src/unnamed/part_000:70-74
AddServiceInsert(w, t) ==
    LET x == w.callers[t].arg
        w1 == [w EXCEPT !.scout.Services[w.svc[x].ID] = x]
        w2 == IF w1.scout.Running THEN Spawn(w1, x) ELSE w1
    IN Return_(w2, t)

\* DelService before the lock, src/unnamed/part_000:80-81
DelServiceStop(w, t) ==
    LET u == w.callers[t].arg IN
    IF w.scout.Services[u] = NilObj
    THEN [w EXCEPT !.panicked = TRUE]
    ELSE Goto(Stop(w, w.scout.Services[u]), t, "del.lock")

\* DelService under the lock, src/unnamed/part_000:83-84
DelServiceDelete(w, t) ==
    Return_([w EXCEPT !.scout.Services[w.callers[t].arg] = NilObj], t)

\* one turn of `for _, ser := range s.Services { go ser.Scout() }`, or the
\* statement after the range, src/unnamed/part_000:92-95
StartRange(w, t, u) ==
    IF w.callers[t].it = {}
    THEN Return_([w EXCEPT !.scout.Running = TRUE], t)
    ELSE LET w1 == [w EXCEPT !.callers[t].it = @ \ {u}]
         IN IF w.scout.Services[u] = NilObj THEN w1
            ELSE Spawn(w1, w.scout.Services[u])

\* one turn of `for _, ser := range s.Services { ser.Stop() }`, or the
\* statement after the range, src/unnamed/part_000:103-106
StopRange(w, t, u) ==
    IF w.callers[t].it = {}
    THEN Return_([w EXCEPT !.scout.Running = FALSE], t)
    ELSE LET w1 == [w EXCEPT !.callers[t].it = @ \ {u}]
         IN IF w.scout.Services[u] = NilObj THEN w1
            ELSE Stop(w1, w.scout.Services[u])

\* s.mux.RLock(), src/unnamed/part_000:134 and 144
MuxRLock(w, t, pc, u) ==
    [w EXCEPT !.scout.readers = @ + 1,
              !.callers[t] = [@ EXCEPT !.lock = "r", !.pc = pc, !.arg = u]]

\* GetService after RLock, src/unnamed/part_000:135-139
GetServiceRead(w, t) ==
    IF w.scout.Services[w.callers[t].arg] # NilObj
    THEN Return_(w, t)
    ELSE Return_([w EXCEPT !.scout.readers = @ - 1], t)

\* GetServices after RLock, src/unnamed/part_000:145-152
GetServicesCopy(w, t) ==
    Return_([w EXCEPT !.scout.readers = @ - 1,
                      !.callers[t].servs =
                          { w.scout.Services[u] : u \in Keys(w) }], t)

\* ------------------------------------------- actions of the callers
Idle(t) == ~panicked /\ callers[t].pc = "idle" /\ act.k < MaxCalls

At(t, pc) == ~panicked /\ callers[t].pc = pc

BeginAddService(t, x) ==
    /\ Idle(t)
    /\ Commit(AddServiceWire(World, t, x))
    /\ act' = Called("AddService", x, scout.Running)

LockStep(t) ==
    /\ ~panicked
    /\ callers[t].pc \in {"add.lock", "del.lock"}
    /\ scout.readers = 0 /\ ~WriteHeld(World)
    /\ Commit(MuxWLock(World, t, IF callers[t].pc = "add.lock"
                                 THEN "add.insert" ELSE "del.delete"))
    /\ act' = Internal

\* a write of the map that races with an unlocked read may end the process
\* ("concurrent map read and map write"), and an entry put in the map during
\* a range may or may not be produced by it
WriteStep(t) ==
    /\ ~panicked
    /\ callers[t].pc \in WritePcs
    /\ (callers[t].pc = "add.insert" /\ scout.Running) => HasFreeLoop(World)
    /\ LET w == IF callers[t].pc = "add.insert"
                THEN AddServiceInsert(World, t)
                ELSE DelServiceDelete(World, t)
           u == svc[callers[t].arg].ID
       IN IF Racing(World, t)
          THEN \E crash, seen \in BOOLEAN :
                  Commit([w EXCEPT
                     !.panicked = crash,
                     !.callers = [t2 \in CallerIds |->
                        IF /\ seen /\ callers[t].pc = "add.insert"
                           /\ callers[t2].pc \in {"start.range", "stop.range"}
                        THEN [w.callers[t2] EXCEPT !.it = @ \cup {u}]
                        ELSE w.callers[t2]]])
          ELSE Commit(w)
    /\ act' = Internal

BeginDelService(t, u) ==
    /\ Idle(t)
    /\ Commit(IF u # NilUUID
              THEN [World EXCEPT !.callers[t] =
                       [@ EXCEPT !.pc = "del.read", !.arg = u]]
              ELSE World)
    /\ act' = Called("DelService", u, scout.Services[u] # NilObj)

DelReadStep(t) ==
    /\ At(t, "del.read")
    /\ Commit(DelServiceStop(World, t))
    /\ act' = Internal

\* src/unnamed/part_000:90-92 and 101-103: the test of s.Running, then the
\* range begins
BeginStartStop(t, op) ==
    /\ Idle(t)
    /\ LET go == IF op = "StartScoutingServices" THEN ~scout.Running
                 ELSE scout.Running
       IN Commit(IF go
                 THEN [World EXCEPT !.callers[t] =
                          [@ EXCEPT
                              !.pc = IF op = "StartScoutingServices"
                                     THEN "start.range" ELSE "stop.range",
                              !.it = Keys(World)]]
                 ELSE World)
    /\ act' = Called(op, 0, scout.Running)

RangeStep(t) ==
    /\ ~panicked
    /\ callers[t].pc \in {"start.range", "stop.range"}
    /\ (callers[t].pc = "start.range" /\ callers[t].it # {})
           => HasFreeLoop(World)
    /\ \E u \in UUIDs :
          /\ callers[t].it # {} => u \in callers[t].it
          /\ callers[t].it = {} => u = NilUUID
          /\ Commit(IF callers[t].pc = "start.range"
                    THEN StartRange(World, t, u) ELSE StopRange(World, t, u))
    /\ act' = Internal

BeginGet(t, u) ==
    /\ Idle(t)
    /\ ~WriteHeld(World)
    /\ scout.readers < MaxReaders
    /\ Commit(MuxRLock(World, t, IF u = NilUUID THEN "list.copy"
                                 ELSE "get.read", u))
    /\ act' = Called(IF u = NilUUID THEN "GetServices" ELSE "GetService",
                     u, u # NilUUID /\ scout.Services[u] # NilObj)

GetReadStep(t) ==
    /\ ~panicked
    /\ callers[t].pc \in {"get.read", "list.copy"}
    /\ Commit(IF callers[t].pc = "get.read" THEN GetServiceRead(World, t)
              ELSE GetServicesCopy(World, t))
    /\ act' = Internal

NextRace ==
    \/ \E t \in CallerIds, x \in Objs \cup {NilObj} : BeginAddService(t, x)
    \/ \E t \in CallerIds : LockStep(t)
    \/ \E t \in CallerIds : WriteStep(t)
    \/ \E t \in CallerIds, u \in UUIDs : BeginDelService(t, u)
    \/ \E t \in CallerIds : DelReadStep(t)
    \/ \E t \in CallerIds :
          \E op \in {"StartScoutingServices", "StopScoutingServices"} :
             BeginStartStop(t, op)
    \/ \E t \in CallerIds : RangeStep(t)
    \/ \E t \in CallerIds, u \in UUIDs : BeginGet(t, u)
    \/ \E t \in CallerIds : GetReadStep(t)

\* the registry of InitReg, its methods called by concurrent callers
SpecRace == InitReg /\ [][NextRace]_vars

\* ------------------------------------------------- the backoff alone
\* endpoint 1 with retry enabled and any pair of retry intervals; the
\* backoff is applied to it again and again
BackoffIntervals == 0..JitterHi

BackoffCall(o) ==
    /\ act.k < MaxCalls
    /\ svc[o].RetryAttempts < MaxAttempts
    /\ \E r \in 0..(RandDen - 1) : Commit(LinearJitterBackoff(World, o, r))
    /\ act' = Called("LinearJitterBackoff", o, FALSE)

InitBackoff ==
    /\ \E lo, hi \in BackoffIntervals, iv \in Intervals :
          svc = [o \in Objs |->
                    [NewService(IDOf(o), RegConfig) EXCEPT
                        !.Retry = TRUE, !.Interval = iv,
                        !.RetryMinInterval = IF o = 1 THEN lo ELSE 0,
                        !.RetryMaxInterval = IF o = 1 THEN hi ELSE 0]]
    /\ chans = [c \in ChanIds |-> "unalloc"]
    /\ loops = [l \in LoopIds |-> NoLoop]
    /\ scout = [Services |-> [u \in UUIDs |-> NilObj], Running |-> FALSE,
                readers |-> 0, waiting |-> FALSE]
    /\ now = 0
    /\ stats = [o \in Objs |-> NoStats]
    /\ panicked = FALSE
    /\ callers = [t \in CallerIds |-> NoCaller]
    /\ act = NoAct

NextBackoff == BackoffCall(1)

SpecBackoff == InitBackoff /\ [][NextBackoff]_vars

\* ------------------------------------------------ the loop's timing
\* one ICMP endpoint with interval LongInterval and retry disabled, started
\* at time 0.  Time passes only inside a check, which takes CheckTime, and
\* while the loop sleeps in its select.
DriftConfig == [RegConfig EXCEPT !.Interval = LongInterval]

DriftInputs ==
    { in \in InICMP : /\ in.dns = "ok" /\ in.probe \in {"reply", "idle"}
                      /\ in.rtt = 0 /\ in.nips = 0 }

\* a check of duration d: its result is reported d after it began
TimedCheck(l, ins, d) ==
    /\ ~panicked
    /\ loops[l].pc = "check"
    /\ now + d <= Horizon
    /\ \E in \in Inputs(svc[loops[l].o].Type) \cap ins :
          Commit(Check([World EXCEPT !.now = now + d], l, in))
    /\ act' = Internal

\* the clock advances while every goroutine sleeps in its select
Sleep ==
    /\ ~panicked
    /\ now < Horizon
    /\ \E l \in LoopIds : loops[l].pc = "wait"
    /\ \A l \in LoopIds : loops[l].pc \in {"none", "done", "wait"}
    /\ now' = now + 1
    /\ loops' = WakeOnTime(loops, now + 1)
    /\ act' = Internal
    /\ UNCHANGED <<svc, chans, scout, stats, panicked, callers>>

InitDrift ==
    /\ svc = [o \in Objs |->
                 IF o = 1
                 THEN [NewService(1, DriftConfig) EXCEPT !.Responses = "shared"]
                 ELSE NewService(NilUUID, DriftConfig)]
    /\ chans = [c \in ChanIds |-> "unalloc"]
    /\ loops = [l \in LoopIds |-> NoLoop]
    /\ scout = [Services |-> [u \in UUIDs |-> IF u = 1 THEN 1 ELSE NilObj],
                Running |-> FALSE, readers |-> 0, waiting |-> FALSE]
    /\ now = 0
    /\ stats = [o \in Objs |-> NoStats]
    /\ panicked = FALSE
    /\ callers = [t \in CallerIds |-> NoCaller]
    /\ act = NoAct

NextDrift ==
    \/ GoScout(1)
    \/ \E l \in LoopIds : ScoutStart(l)
    \/ \E l \in LoopIds : TimedCheck(l, DriftInputs, CheckTime)
    \/ \E l \in LoopIds : Receive(l)
    \/ \E l \in LoopIds : AfterCheck(l)
    \/ \E l \in LoopIds : Select(l)
    \/ Sleep

SpecDrift == InitDrift /\ [][NextDrift]_vars

\* ------------------------------------------------ the loop's cadence
\* one endpoint that always succeeds, with checks that take no time; the
\* consumer keeps the timestamp of the outcome it received last
CadenceIntervals == 1..(LongInterval + 1)

CadenceConfigs ==
    { [RegConfig EXCEPT !.Type = t, !.Interval = iv] :
        t \in {"http", "icmp"}, iv \in CadenceIntervals }

CadenceInputs ==
    { in \in AllInputs : /\ in.dns = "ok" /\ in.req = "ok" /\ in.dial = "ok"
                         /\ in.probe = "reply" /\ in.status = StatusOK
                         /\ in.match /\ in.nips = 0 }

RecordAt(st, x) == [Record(st, x) EXCEPT !.at = x.CreatedAt]

ReceiveAt(l) ==
    /\ ~panicked
    /\ loops[l].pc = "send"
    /\ svc[loops[l].o].Responses # "nil"
    /\ stats[loops[l].o].n < MaxOutcomes
    /\ stats' = [stats EXCEPT ![loops[l].o] = RecordAt(@, loops[l].out)]
    /\ loops' = [loops EXCEPT ![l] =
                    [@ EXCEPT !.pc = IF loops[l].ret = "dial" THEN "dial"
                                     ELSE "after",
                              !.out = NoOutcome, !.ret = ""]]
    /\ act' = Internal
    /\ UNCHANGED <<svc, chans, scout, now, panicked, callers>>

InitCadence ==
    /\ \E c \in CadenceConfigs :
          svc = [o \in Objs |->
                    IF o = 1
                    THEN [NewService(1, c) EXCEPT !.Responses = "shared"]
                    ELSE NewService(NilUUID, c)]
    /\ chans = [c \in ChanIds |-> "unalloc"]
    /\ loops = [l \in LoopIds |-> NoLoop]
    /\ scout = [Services |-> [u \in UUIDs |-> IF u = 1 THEN 1 ELSE NilObj],
                Running |-> FALSE, readers |-> 0, waiting |-> FALSE]
    /\ now = 0
    /\ stats = [o \in Objs |-> NoStats]
    /\ panicked = FALSE
    /\ callers = [t \in CallerIds |-> NoCaller]
    /\ act = NoAct

NextCadence ==
    \/ GoScout(1)
    \/ \E l \in LoopIds : ScoutStart(l)
    \/ \E l \in LoopIds : TimedCheck(l, CadenceInputs, 0)
    \/ \E l \in LoopIds : ReceiveAt(l)
    \/ \E l \in LoopIds : AfterCheck(l)
    \/ \E l \in LoopIds : Select(l)
    \/ Sleep
    \/ StopCall(1)

SpecCadence == InitCadence /\ [][NextCadence]_vars

\* ------------------------------------------------ the start of a loop
\* one HTTP or ICMP endpoint whose loop is started at any time of the clock;
\* a check takes CheckTime and may succeed or fail
StartTimes == 0..LongInterval

StartInputs ==
    { in \in AllInputs : /\ in.dns = "ok" /\ in.req = "ok" /\ in.dial = "ok"
                         /\ in.probe \in {"reply", "idle"} /\ in.match
                         /\ in.rtt = 0 /\ in.nips = 0 }

InitStart ==
    /\ \E c \in CadenceConfigs :
          svc = [o \in Objs |->
                    IF o = 1
                    THEN [NewService(1, c) EXCEPT !.Responses = "shared"]
                    ELSE NewService(NilUUID, c)]
    /\ chans = [c \in ChanIds |-> "unalloc"]
    /\ loops = [l \in LoopIds |-> NoLoop]
    /\ scout = [Services |-> [u \in UUIDs |-> IF u = 1 THEN 1 ELSE NilObj],
                Running |-> FALSE, readers |-> 0, waiting |-> FALSE]
    /\ now \in StartTimes
    /\ stats = [o \in Objs |-> NoStats]
    /\ panicked = FALSE
    /\ callers = [t \in CallerIds |-> NoCaller]
    /\ act = NoAct

NextStart ==
    \/ GoScout(1)
    \/ \E l \in LoopIds : ScoutStart(l)
    \/ \E l \in LoopIds : TimedCheck(l, StartInputs, CheckTime)
    \/ \E l \in LoopIds : Receive(l)
    \/ \E l \in LoopIds : AfterCheck(l)
    \/ \E l \in LoopIds : Select(l)
    \/ Sleep
    \/ StopCall(1)

SpecStart == InitStart /\ [][NextStart]_vars

\* ------------------------------------------------ the checkers
\* one endpoint of any protocol kind with interval 0, so that its loop
\* checks again at once; the network answers each check in any way, and the
\* goroutine keeps the answer in its locals
CheckConfigs ==
    { c \in Configs : /\ c.Type \in {"http", "tcp", "udp", "icmp"}
                      /\ c.Interval = 0
                      /\ c.RetryMinInterval = 0 /\ c.RetryMaxInterval = 0 }

SeenCheck(l) ==
    /\ ~panicked
    /\ loops[l].pc = "check"
    /\ \E in \in Inputs(svc[loops[l].o].Type) :
          /\ svc[loops[l].o].Trace =>
                 svc[loops[l].o].TraceData + in.nips <= MaxTrace
          /\ Commit([Check(World, l, in) EXCEPT !.loops[l].net = in])
    /\ act' = Internal

SeenDial(l) ==
    /\ ~panicked
    /\ loops[l].pc = "dial"
    /\ \E in \in InDial :
          /\ svc[loops[l].o].Trace =>
                 svc[loops[l].o].TraceData + in.nips <= MaxTrace
          /\ Commit([Dial(World, l, NoLatency, in) EXCEPT
                        !.loops[l].net = [loops[l].net EXCEPT
                                             !.dial = in.dial,
                                             !.nips = in.nips]])
    /\ act' = Internal

InitCheck ==
    /\ \E c \in CheckConfigs :
          svc = [o \in Objs |->
                    IF o = 1
                    THEN [NewService(1, c) EXCEPT !.Responses = "shared"]
                    ELSE NewService(NilUUID, RegConfig)]
    /\ chans = [c \in ChanIds |-> "unalloc"]
    /\ loops = [l \in LoopIds |-> NoLoop]
    /\ scout = [Services |-> [u \in UUIDs |-> IF u = 1 THEN 1 ELSE NilObj],
                Running |-> FALSE, readers |-> 0, waiting |-> FALSE]
    /\ now = 0
    /\ stats = [o \in Objs |-> NoStats]
    /\ panicked = FALSE
    /\ callers = [t \in CallerIds |-> NoCaller]
    /\ act = NoAct

NextCheck ==
    \/ GoScout(1)
    \/ \E l \in LoopIds : ScoutStart(l)
    \/ \E l \in LoopIds : SeenCheck(l)
    \/ \E l \in LoopIds : SeenDial(l)
    \/ \E l \in LoopIds : Receive(l)
    \/ \E l \in LoopIds : AfterCheck(l)
    \/ \E l \in LoopIds : Select(l)

SpecCheck == InitCheck /\ [][NextCheck]_vars

\* ------------------------------------------------ an endpoint that is down
\* one endpoint whose every check meets a transient error, with retries that
\* cannot be exhausted; the consumer keeps receiving, the goroutine keeps
\* being scheduled and every timer of time.After fires
LiveConfigs ==
    { d \in { [c EXCEPT !.RetryMax = m] : c \in Configs, m \in RetryMaxes } :
        /\ d.Type \in {"http", "tcp", "udp", "icmp"}
        /\ ~d.Retry \/ d.RetryMax = 0
        /\ ~d.Trace /\ d.Expected = "" }

LiveInputs ==
    { in \in AllInputs : /\ in.rtt = 0 /\ in.nips = 0
                         /\ \/ in.dns = "err"
                            \/ in.req = "err"
                            \/ in.dial = "err"
                            \/ in.probe = "idle" /\ in.dial = "err" }

\* the inputs of LiveInputs that make a check of the given kind fail
Failing(type) ==
    CASE type = "http" -> { in \in LiveInputs : in.dns = "err" \/ in.req = "err" }
      [] type = "icmp" -> { in \in LiveInputs : in.dns = "err" }
                          \cup { [In0 EXCEPT !.probe = "idle"] }
      [] OTHER -> { in \in LiveInputs : in.dns = "err" \/ in.dial = "err" }

FailedCheck(l) ==
    /\ ~panicked
    /\ loops[l].pc = "check"
    /\ \E in \in Inputs(svc[loops[l].o].Type) \cap Failing(svc[loops[l].o].Type) :
          Commit(Check(World, l, in))
    /\ act' = Internal

FailedDial(l) ==
    /\ ~panicked
    /\ loops[l].pc = "dial"
    /\ \E in \in InDial \cap LiveInputs :
          Commit(Dial(World, l, NoLatency, in))
    /\ act' = Internal

\* the timer of the select fires: the clock is at the time it was set for
TimerFires(l) ==
    /\ ~panicked
    /\ loops[l].pc = "wait"
    /\ now' = IF loops[l].wake > now THEN loops[l].wake ELSE now
    /\ loops' = [loops EXCEPT ![l] = [@ EXCEPT !.pc = "check", !.pubs = 0]]
    /\ act' = Internal
    /\ UNCHANGED <<svc, chans, scout, stats, panicked, callers>>

InitLive ==
    /\ \E c \in LiveConfigs :
          svc = [o \in Objs |->
                    IF o = 1
                    THEN [NewService(1, c) EXCEPT !.Responses = "shared"]
                    ELSE NewService(NilUUID, RegConfig)]
    /\ chans = [c \in ChanIds |-> "unalloc"]
    /\ loops = [l \in LoopIds |-> NoLoop]
    /\ scout = [Services |-> [u \in UUIDs |-> IF u = 1 THEN 1 ELSE NilObj],
                Running |-> FALSE, readers |-> 0, waiting |-> FALSE]
    /\ now = 0
    /\ stats = [o \in Objs |-> NoStats]
    /\ panicked = FALSE
    /\ callers = [t \in CallerIds |-> NoCaller]
    /\ act = NoAct

\* the steps of the goroutine, of the consumer and of the timer: the one
\* goroutine of this model has at most one of them enabled at a time
LiveStep ==
    \/ GoScout(1)
    \/ \E l \in LoopIds : ScoutStart(l)
    \/ \E l \in LoopIds : FailedCheck(l)
    \/ \E l \in LoopIds : FailedDial(l)
    \/ \E l \in LoopIds : Receive(l)
    \/ \E l \in LoopIds : AfterCheck(l)
    \/ \E l \in LoopIds : Select(l)
    \/ \E l \in LoopIds : TimerFires(l)

\* the caller may stop the endpoint, once
StopOnce ==
    /\ act.k = 0
    /\ StopCall(1)

NextLive ==
    \/ LiveStep
    \/ StopOnce

FairLive == WF_vars(LiveStep)

SpecLive == InitLive /\ [][NextLive]_vars /\ FairLive

\* ------------------------------------------------ the timeout of a check
\* one endpoint with any configured timeout (0: not configured; 5: the plain
\* number of src/scout_test.go:21; whole seconds), whose checks all succeed
Timeouts == {Int64(0), Int64(5)} \cup { Seconds(n) : n \in 1..MaxTimeoutSecs }

\* the time limit a check gives to its network call: p.MaxRTT of CheckICMP
\* (src/service.go:247), the timeout of net.DialTimeout (src/service.go:297)
\* and of HTTPRequest (src/service.go:321)
TimeoutArg(type, t) ==
    IF type = "icmp" THEN t ELSE Mul64(t, Int64(Second))

TimeoutConfigs ==
    { c \in CheckConfigs : ~c.Retry /\ ~c.Trace /\ c.Expected = "" }

LimitedCheck(l) ==
    /\ ~panicked
    /\ loops[l].pc = "check"
    /\ LET s == svc[loops[l].o] IN
       Commit([Check(World, l, In0) EXCEPT
                  !.loops[l].timeout = TimeoutArg(s.Type, s.Timeout)])
    /\ act' = Internal

InitTimeout ==
    /\ \E c \in TimeoutConfigs, t \in Timeouts :
          svc = [o \in Objs |->
                    IF o = 1
                    THEN [NewService(1, c) EXCEPT !.Responses = "shared",
                                                  !.Timeout = t]
                    ELSE NewService(NilUUID, RegConfig)]
    /\ chans = [c \in ChanIds |-> "unalloc"]
    /\ loops = [l \in LoopIds |-> NoLoop]
    /\ scout = [Services |-> [u \in UUIDs |-> IF u = 1 THEN 1 ELSE NilObj],
                Running |-> FALSE, readers |-> 0, waiting |-> FALSE]
    /\ now = 0
    /\ stats = [o \in Objs |-> NoStats]
    /\ panicked = FALSE
    /\ callers = [t \in CallerIds |-> NoCaller]
    /\ act = NoAct

NextTimeout ==
    \/ GoScout(1)
    \/ \E l \in LoopIds : ScoutStart(l)
    \/ \E l \in LoopIds : LimitedCheck(l)
    \/ \E l \in LoopIds : Receive(l)
    \/ \E l \in LoopIds : AfterCheck(l)
    \/ \E l \in LoopIds : Select(l)

SpecTimeout == InitTimeout /\ [][NextTimeout]_vars

\* ------------------------------------------ stopping a running registry
\* a registry of ICMP endpoints that always reply, checked back to back
\* (interval 0, so the clock stands still); it is started once and then
\* stopped once.  The consumer drains the stream and keeps no record of what
\* it got, so a loop that is never stopped goes round for ever
InitStop ==
    /\ \E servs \in RegLists :
          LET c == [RegConfig EXCEPT !.Interval = 0]
              w == NewScout([svc |-> [o \in Objs |-> NewService(IDOf(o), c)],
                             scout |-> [Services |-> [u \in UUIDs |-> NilObj],
                                        Running |-> FALSE, readers |-> 0,
                                        waiting |-> FALSE]],
                            servs)
          IN svc = w.svc /\ scout = w.scout
    /\ chans = [c \in ChanIds |-> "unalloc"]
    /\ loops = [l \in LoopIds |-> NoLoop]
    /\ now = 0
    /\ stats = [o \in Objs |-> NoStats]
    /\ panicked = FALSE
    /\ callers = [t \in CallerIds |-> NoCaller]
    /\ act = NoAct

\* a check that is answered, up to its blocking send; no production number
\* is kept
UncountedCheck(l) ==
    /\ ~panicked
    /\ loops[l].pc = "check"
    /\ \E in \in RegInputs :
          LET w == Check(World, l, in) IN
          Commit([w EXCEPT !.stats = stats, !.loops[l].out.seq = 0])
    /\ act' = Internal

\* the consumer takes the outcome of goroutine l and forgets it
Drain(l) ==
    /\ ~panicked
    /\ loops[l].pc = "send"
    /\ svc[loops[l].o].Responses # "nil"
    /\ loops' = [loops EXCEPT ![l] =
                    [@ EXCEPT !.pc = "after", !.out = NoOutcome, !.ret = ""]]
    /\ act' = Internal
    /\ UNCHANGED <<svc, chans, scout, now, stats, panicked, callers>>

NextStop ==
    \/ act.k = 0 /\ StartScoutingServicesCall
    \/ act.k = 1 /\ StopScoutingServicesCall
    \/ \E l \in LoopIds : ScoutStart(l)
    \/ \E l \in LoopIds : UncountedCheck(l)
    \/ \E l \in LoopIds : Drain(l)
    \/ \E l \in LoopIds : AfterCheck(l)
    \/ \E l \in LoopIds : Select(l)

\* every goroutine keeps being scheduled, the network and the consumer
\* answer, and a select whose stop case is ready over and over takes it in
\* the end (Go chooses among the ready cases at random)
SpecStop ==
    /\ InitStop
    /\ [][NextStop]_vars
    /\ \A l \in LoopIds :
          /\ WF_vars(ScoutStart(l) \/ UncountedCheck(l) \/ Drain(l)
                     \/ AfterCheck(l) \/ Select(l))
          /\ SF_vars(Select(l) /\ loops'[l].pc = "done")

\* ------------------------------------------ Stop, statement by statement
\* s.Services[id].Stop() of DelService, src/unnamed/part_000:81, run by a
\* caller while the endpoint's goroutine runs: at "del.read" the caller
\* evaluates s.IsRunning() (src/service.go:119), at "del.close" it runs
\* close(s.Running) (src/service.go:120).  The Stop inside Failure is one step
\* of the goroutine; it may fall between the two statements of the caller
StopStep(t) ==
    /\ ~panicked
    /\ callers[t].pc \in {"del.read", "del.close"}
    /\ LET o == scout.Services[callers[t].arg] IN
       Commit(IF o = NilObj THEN [World EXCEPT !.panicked = TRUE]
              ELSE IF callers[t].pc = "del.close"
              THEN Goto(Close(World, svc[o].Running), t, "del.lock")
              ELSE IF IsRunning(World, o) THEN Goto(World, t, "del.close")
              ELSE Goto(World, t, "del.lock"))
    /\ act' = Internal

\* one endpoint whose every check fails, started by `go s.Scout()`, and one
\* caller that removes it from the registry
NextClose ==
    \/ GoScout(1)
    \/ \E l \in LoopIds : ScoutStart(l)
    \/ \E l \in LoopIds : FailedCheck(l)
    \/ \E l \in LoopIds : FailedDial(l)
    \/ \E l \in LoopIds : Receive(l)
    \/ \E l \in LoopIds : AfterCheck(l)
    \/ \E l \in LoopIds : Select(l)
    \/ act.k = 0 /\ BeginDelService(1, 1)
    \/ StopStep(1)
    \/ LockStep(1)
    \/ WriteStep(1)

SpecClose == InitCheck /\ [][NextClose]_vars

\* ------------------------------------------------ claims about the loop
\* the protocol kinds of Check, and those whose checker reports once
ProtocolKinds == {"http", "tcp", "udp", "icmp"}

OneReportKinds == {"http", "icmp"}

\* C1: an endpoint with retry enabled and maxAttempts = 3 whose every check
\* fails gets RetriesExhausted = true on its 3rd Failure outcome, and no 4th
\* outcome follows.
C1_ThirdFailureExhausted ==
    \A o \in Objs :
        ( /\ svc[o].Type \in OneReportKinds
          /\ svc[o].Retry /\ svc[o].RetryMax = 3
          /\ stats[o].streak = stats[o].n )
        => /\ stats[o].n >= 3 => stats[o].exhaustedAt = 3
           /\ stats[o].n <= 3

\* C2: once an endpoint has published a Failure with RetriesExhausted = true
\* it publishes no further outcome, whatever the next sleep duration is.
C2_NoOutcomeAfterExhausted ==
    \A o \in Objs :
        (svc[o].Type \in OneReportKinds /\ stats[o].exhaustedAt # 0)
        => stats[o].n = stats[o].exhaustedAt

\* C3: a completed call of Check of any protocol kind has published exactly
\* one outcome.
C3_OneOutcomePerCheck ==
    \A l \in LoopIds :
        (loops[l].pc = "after" /\ svc[loops[l].o].Type \in ProtocolKinds)
        => loops[l].pubs = 1

\* C4: a step that runs Success leaves RetryAttempts = 0 and Online = true,
\* and they stay so while the outcome waits for its consumer.
C4_Step ==
    \A l \in LoopIds :
        ( /\ loops[l].pc \in {"check", "dial"}
          /\ loops'[l].pc = "send" /\ loops'[l].out.kind = "S" )
        => /\ svc'[loops[l].o].RetryAttempts = 0
           /\ svc'[loops[l].o].Online

C4_State ==
    \A l \in LoopIds :
        (loops[l].pc = "send" /\ loops[l].out.kind = "S")
        => /\ svc[loops[l].o].RetryAttempts = 0
           /\ svc[loops[l].o].Online

C4_SuccessResets == [][C4_Step /\ C4_State']_vars

\* a Success is waiting for its consumer after two or more Failures of an
\* endpoint with retry enabled (its counter was not 0 before)
C4_Witness ==
    \E l \in LoopIds :
        /\ loops[l].pc = "send" /\ loops[l].out.kind = "S"
        /\ svc[loops[l].o].Retry
        /\ stats[loops[l].o].streak >= 2
        /\ svc[loops[l].o].RetryAttempts = 0

\* C5: while retry is enabled, RetryAttempts equals the number of consecutive
\* Failures since the last Success or the Start, whenever the loop is at its
\* select.
C5_AttemptsCountFailures ==
    \A l \in LoopIds :
        ( /\ loops[l].pc \in {"select", "wait"}
          /\ svc[loops[l].o].Type \in OneReportKinds
          /\ svc[loops[l].o].Retry )
        => svc[loops[l].o].RetryAttempts = stats[loops[l].o].streak

\* C6: a Stop of an endpoint whose loop is not running (never started, or
\* already stopped) changes nothing and does not panic; after any Stop the
\* endpoint is not running, so a second Stop is such a no-op.
C6_Step ==
    act'.op = "Stop" =>
        /\ ~act'.b => UNCHANGED <<svc, chans, loops, scout, now, stats,
                                  panicked, callers>>
        /\ ~panicked'
        /\ ~(svc'[act'.o].Running # NilChan
             /\ chans'[svc'[act'.o].Running] = "open")

C6_StopIdempotent == [][C6_Step]_vars

\* a Stop has just run on an endpoint whose loop had already been stopped
C6_Witness ==
    /\ act.op = "Stop" /\ ~act.b
    /\ Signalled(World, act.o)
    /\ ~panicked

\* C7: once the Running channel of an endpoint is closed, its loop begins no
\* new check at the select, also when the sleep duration has expired.
C7_NoCheckAfterStop ==
    [][\A l \in LoopIds :
          ( /\ loops[l].pc \in {"select", "wait"} /\ loops'[l].pc = "check"
            /\ svc[loops[l].o].Type \in ProtocolKinds )
          => ~Signalled(World, loops[l].o)]_vars

\* -------------------------------------------- claims about the registry
\* every variable but the record of the last call
RegUnchanged ==
    UNCHANGED <<svc, chans, loops, scout, now, stats, panicked, callers>>

\* C8: StartScoutingServices on a registry that is already running spawns no
\* loop, and StopScoutingServices on a registry that is not running signals
\* no endpoint; each leaves the whole state unchanged.
C8_Step ==
    /\ (act'.op = "StartScoutingServices" /\ scout.Running) => RegUnchanged
    /\ (act'.op = "StopScoutingServices" /\ ~scout.Running) => RegUnchanged

C8_StartStopIdempotent == [][C8_Step]_vars

\* StartScoutingServices has just run on a running registry whose map has an
\* endpoint, with a goroutine slot free for another loop
C8_Witness ==
    /\ act.op = "StartScoutingServices" /\ act.b
    /\ scout.Running
    /\ Keys(World) # {}
    /\ Cardinality(FreeLoops(World)) >= Cardinality(Keys(World))
    /\ \E l \in LoopIds : Alive(loops[l])

\* C9: AddService of an endpoint with a valid identifier puts it in the map
\* and wires it to the shared stream; on a running registry it starts the
\* endpoint's loop at once, on a registry that is not running it starts none.
C9_Step ==
    (act'.op = "AddService" /\ act'.o # NilObj /\ svc[act'.o].ID # NilUUID)
    => /\ scout'.Services[svc[act'.o].ID] = act'.o
       /\ svc'[act'.o].Responses = "shared"
       /\ scout.Running =>
             \E l \in LoopIds : /\ loops'[l] # loops[l]
                                /\ loops'[l].pc = "start"
                                /\ loops'[l].o = act'.o
       /\ ~scout.Running => loops' = loops

C9_AddServiceStartsLoop == [][C9_Step]_vars

\* C10: AddService of a nil endpoint, or of an endpoint whose identifier is
\* the nil UUID, leaves the map, the running flag and the loops unchanged.
C10_Step ==
    (act'.op = "AddService" /\ (act'.o = NilObj \/ svc[act'.o].ID = NilUUID))
    => RegUnchanged

C10_AddServiceRejects == [][C10_Step]_vars

\* AddService has just run with the endpoint that has the nil UUID, on a
\* running registry that has a loop
C10_Witness ==
    /\ act.op = "AddService" /\ act.o # NilObj
    /\ svc[act.o].ID = NilUUID
    /\ scout.Running
    /\ \E l \in LoopIds : Alive(loops[l])

\* C11: DelService(id) signals Stop on the loop of the endpoint it removes,
\* and for an identifier that is not in the map (a second removal of the same
\* id included) it leaves the registry unchanged and does not fail.
C11_Step ==
    act'.op = "DelService" =>
        /\ act'.b => ~SignalOpen([svc |-> svc', chans |-> chans'],
                                 scout.Services[act'.o])
        /\ ~act'.b => (RegUnchanged /\ ~panicked')

C11_DelServiceIdempotent == [][C11_Step]_vars

\* C12: every write of the map and every snapshot read of it (GetService,
\* GetServices) is made with the registry lock held, and no caller reads or
\* ranges over the map while another caller is writing it.
C12_MapGuardedByLock ==
    /\ \A t \in CallerIds :
          callers[t].pc \in WritePcs \cup {"get.read", "list.copy"}
          => callers[t].lock # ""
    /\ \A t1, t2 \in CallerIds :
          t1 # t2 => ~(callers[t1].pc \in WritePcs /\ callers[t2].pc \in ReadPcs)

\* C13: GetServices returns a copy of the map as it is at the call, a later
\* AddService or DelService does not change the returned collection, and a
\* GetService or GetServices that has returned leaves the registry as it was
\* before the call.
C13_Step ==
    \A t \in CallerIds :
        /\ (callers[t].pc = "list.copy" /\ callers'[t].pc = "idle")
           => callers'[t].servs = { scout.Services[u] : u \in Keys(World) }
        /\ ~(callers[t].pc = "list.copy" /\ callers'[t].pc = "idle")
           => callers'[t].servs = callers[t].servs
        /\ (callers[t].pc \in {"get.read", "list.copy"} /\ callers'[t].pc = "idle")
           => scout' = [scout EXCEPT !.readers = @ - 1]

C13_GetServicesSnapshot == [][C13_Step]_vars

\* the part of C13 about the returned collection
C13_CopyPart ==
    [][\A t \in CallerIds :
        /\ (callers[t].pc = "list.copy" /\ callers'[t].pc = "idle")
           => callers'[t].servs = { scout.Services[u] : u \in Keys(World) }
        /\ ~(callers[t].pc = "list.copy" /\ callers'[t].pc = "idle")
           => callers'[t].servs = callers[t].servs]_vars

\* C14: the outcomes of one endpoint are received in the order the endpoint
\* produced them (seq is the production number), under any interleaving of
\* loops and of registry calls.
C14_Step ==
    \A o \in Objs :
        stats'[o].n = stats[o].n + 1 => stats'[o].last > stats[o].last

C14_PerEndpointOrder == [][C14_Step]_vars

\* C15: a loop that has published an outcome stays in the send until a
\* consumer has received it: whenever the loop is anywhere else (in a check,
\* at the select, stopped), every outcome its endpoint made has been received.
C15_PublishBlocks ==
    \A l \in LoopIds :
        LET o == loops[l].o IN
        /\ loops[l].pc \notin {"none", "send"} => stats[o].made = stats[o].n
        /\ loops[l].pc = "send" => stats[o].made = stats[o].n + 1

\* Stop has closed the Running channel of an endpoint whose loop is blocked
\* in the send of its second outcome, which nobody has received
C15_Witness ==
    \E l \in LoopIds :
        /\ loops[l].pc = "send"
        /\ act.op = "Stop" /\ act.b /\ act.o = loops[l].o
        /\ Signalled(World, loops[l].o)
        /\ stats[loops[l].o].n = 1 /\ stats[loops[l].o].made = 2

\* C16: with RetryMinInterval < RetryMaxInterval, the sleep duration that
\* LinearJitterBackoff sets for attempt a >= 1 lies in [min * a, max * a],
\* for every random draw.
C16_Step ==
    \A o \in Objs :
        ( /\ act'.op = "LinearJitterBackoff" /\ act'.o = o
          /\ svc[o].RetryMinInterval < svc[o].RetryMaxInterval )
        => /\ svc'[o].RetryAttempts >= 1
           /\ svc'[o].SleepDuration
                 >= svc[o].RetryMinInterval * svc'[o].RetryAttempts
           /\ svc'[o].SleepDuration
                 <= svc[o].RetryMaxInterval * svc'[o].RetryAttempts

C16_BackoffInRange == [][C16_Step]_vars

\* the third backoff in a row has run with min = JitterLo < max = JitterHi
\* and has drawn a jitter above 0
C16_Witness ==
    /\ act.op = "LinearJitterBackoff"
    /\ svc[act.o].RetryMinInterval = JitterLo
    /\ svc[act.o].RetryMaxInterval = JitterHi
    /\ svc[act.o].RetryAttempts = 3
    /\ svc[act.o].SleepDuration > JitterLo * 3

\* C17: with RetryMaxInterval <= RetryMinInterval, the sleep duration that
\* LinearJitterBackoff sets is RetryMinInterval * attempt, whatever the
\* random draw is.
C17_Step ==
    \A o \in Objs :
        ( /\ act'.op = "LinearJitterBackoff" /\ act'.o = o
          /\ svc[o].RetryMaxInterval <= svc[o].RetryMinInterval )
        => svc'[o].SleepDuration
              = svc[o].RetryMinInterval * svc'[o].RetryAttempts

C17_BackoffMinTimesAttempt == [][C17_Step]_vars

\* C18: after each check the next sleep duration is: the interval when the
\* endpoint is online; checkpoint - now (negative or not) when it is offline
\* with retry disabled; the value of the backoff when it is offline with
\* retry enabled.
C18_Rule(l) ==
    LET o == loops[l].o IN
    /\ svc[o].Online => svc'[o].SleepDuration = svc[o].Interval
    /\ (~svc[o].Online /\ ~svc[o].Retry)
       => svc'[o].SleepDuration = svc'[o].Checkpoint - now
    /\ (~svc[o].Online /\ svc[o].Retry)
       => \E r \in 0..(RandDen - 1) :
             /\ svc'[o].SleepDuration
                   = LinearJitterBackoff(World, o, r).svc[o].SleepDuration
             /\ svc'[o].RetryAttempts = svc[o].RetryAttempts + 1

C18_SleepByCase ==
    [][\A l \in LoopIds :
          ( /\ loops[l].pc = "after" /\ loops'[l].pc = "select"
            /\ svc[loops[l].o].Type \in ProtocolKinds ) => C18_Rule(l)]_vars

\* the part of C18 about the checks made inside the wait loop
C18_LoopPart ==
    [][\A l \in LoopIds :
          ( /\ loops[l].pc = "after" /\ loops'[l].pc = "select"
            /\ ~loops[l].first ) => C18_Rule(l)]_vars

\* C19: the k-th check of the wait loop is scheduled for start + k * Interval,
\* which is Checkpoint + Interval when the check begins; with checks that
\* each take CheckTime it begins no later than one interval and one check
\* after that time, for every k.
DriftBound == LongInterval + CheckTime

C19_NoCumulativeDrift ==
    \A l \in LoopIds :
        (loops[l].pc = "check" /\ ~loops[l].first)
        => now - (svc[loops[l].o].Checkpoint + svc[loops[l].o].Interval)
              <= DriftBound

\* C20: for an endpoint that always succeeds, with interval I and checks that
\* take no time, each Success outcome is stamped exactly I after the Success
\* outcome before it, the first check of the wait loop after the check made
\* at the start included.
C20_SuccessEveryInterval ==
    \A l \in LoopIds :
        (/\ loops[l].pc = "send"
         /\ loops[l].out.kind = "S"
         /\ stats[loops[l].o].n >= 1)
        => loops[l].out.CreatedAt - stats[loops[l].o].at
              = svc[loops[l].o].Interval

C20_Witness ==
    \E l \in LoopIds :
        /\ loops[l].pc = "send"
        /\ loops[l].out.kind = "S"
        /\ stats[loops[l].o].n = 2
        /\ svc[loops[l].o].Interval = LongInterval
        /\ stats[loops[l].o].at = LongInterval
        /\ loops[l].out.CreatedAt = 2 * LongInterval

\* C21: a goroutine that starts Scout makes a channel that did not exist
\* before and leaves it open in Running, sets Checkpoint to the current time
\* and goes to its first check with no select before it; the first outcome
\* of the endpoint comes from that check, and until the loop reaches its
\* select for the first time Checkpoint keeps the value of the start.
C21_Step ==
    \A l \in LoopIds :
        LET o == loops[l].o IN
        /\ (loops[l].pc = "start" /\ loops'[l].pc # "start")
           => /\ loops'[l].pc = "check" /\ loops'[l].first
              /\ svc'[o].Running # NilChan
              /\ chans[svc'[o].Running] = "unalloc"
              /\ chans'[svc'[o].Running] = "open"
              /\ svc'[o].Checkpoint = now
        /\ (loops[l].first /\ Alive(loops[l]))
           => svc'[o].Checkpoint = svc[o].Checkpoint
        /\ (Alive(loops[l]) /\ stats[o].made = 0 /\ stats'[o].made = 1)
           => loops[l].first /\ loops[l].pc = "check"

C21_FirstCheckAtStart == [][C21_Step]_vars

C21_Witness ==
    \E l \in LoopIds :
        /\ loops[l].pc = "select" /\ ~loops[l].first
        /\ stats[loops[l].o].n = 1
        /\ svc[loops[l].o].Checkpoint = LongInterval
        /\ now = LongInterval + CheckTime

\* C22: an ICMP check that resolved its address and got no reply before the
\* timeout publishes one Failure whose NetworkLatency is -1; one that got a
\* reply publishes one Success whose NetworkLatency is the round-trip time it
\* measured, which is not negative.
C22_ICMPLatency ==
    \A l \in LoopIds :
        LET o == loops[l].o
            in == loops[l].net
        IN (/\ loops[l].pc \in {"send", "after"}
            /\ svc[o].Type = "icmp" /\ in.dns = "ok")
           => /\ in.probe \in {"idle", "reply"} => loops[l].pubs = 1
              /\ (loops[l].pc = "send" /\ in.probe = "idle")
                 => /\ loops[l].out.kind = "F"
                    /\ loops[l].out.NetworkLatency = NoLatency
              /\ (loops[l].pc = "send" /\ in.probe = "reply")
                 => /\ loops[l].out.kind = "S"
                    /\ loops[l].out.NetworkLatency = in.rtt
                    /\ loops[l].out.NetworkLatency >= 0

\* a reply that took time is reported after a check that got no reply
C22_Witness ==
    \E l \in LoopIds :
        /\ loops[l].pc = "send" /\ svc[loops[l].o].Type = "icmp"
        /\ loops[l].net.probe = "reply" /\ loops[l].net.rtt = 1
        /\ loops[l].out.kind = "S" /\ loops[l].out.NetworkLatency = 1
        /\ stats[loops[l].o].streak = 1

C22_WitnessIdle ==
    \E l \in LoopIds :
        /\ loops[l].pc = "send" /\ svc[loops[l].o].Type = "icmp"
        /\ loops[l].net.probe = "idle"
        /\ loops[l].out.kind = "F"
        /\ loops[l].out.NetworkLatency = NoLatency
        /\ stats[loops[l].o].n = 1 /\ stats[loops[l].o].streak = 0

\* C23: an HTTP check with no DNS and no transport error publishes one
\* outcome; it is a Success, with Online = true, exactly when (Expected is
\* empty or the body matches it) and the status equals ExpectedStatus, and
\* otherwise a Failure with Online = false.  With an empty Expected a 404
\* gives a Failure that names the status 404.
C23_Pass(l) ==
    /\ svc[loops[l].o].Expected = "" \/ loops[l].net.match
    /\ loops[l].net.status = svc[loops[l].o].ExpectedStatus

C23_HTTPVerdict ==
    \A l \in LoopIds :
        LET o == loops[l].o
            in == loops[l].net
        IN (/\ loops[l].pc \in {"send", "after"}
            /\ svc[o].Type = "http" /\ in.dns = "ok" /\ in.req = "ok")
           => /\ loops[l].pubs = 1
              /\ svc[o].Online <=> C23_Pass(l)
              /\ loops[l].pc = "send"
                 => /\ loops[l].out.kind = "S" <=> C23_Pass(l)
                    /\ loops[l].out.kind = "F" <=> ~C23_Pass(l)
                    /\ (in.status = 404 /\ svc[o].Expected = "")
                       => /\ loops[l].out.Issue = "bad status"
                          /\ loops[l].out.ErrorCode = 404

\* a body that matches the pattern and the expected status: a Success
C23_Witness ==
    \E l \in LoopIds :
        /\ loops[l].pc = "send" /\ svc[loops[l].o].Type = "http"
        /\ svc[loops[l].o].Expected = "pat" /\ loops[l].net.match
        /\ loops[l].net.status = StatusOK
        /\ loops[l].out.kind = "S" /\ svc[loops[l].o].Online

C23_Witness404 ==
    \E l \in LoopIds :
        /\ loops[l].pc = "send" /\ svc[loops[l].o].Type = "http"
        /\ svc[loops[l].o].Expected = "" /\ loops[l].net.status = 404
        /\ loops[l].net.req = "ok" /\ loops[l].net.dns = "ok"
        /\ loops[l].out.kind = "F" /\ loops[l].out.ErrorCode = 404
        /\ stats[loops[l].o].n = 1 /\ stats[loops[l].o].streak = 0

\* C24: in a TCP/UDP check whose DNS lookup succeeded, the latency probe
\* publishes nothing: when ping has returned and the dial is still to be
\* made no outcome has been published, the one outcome of the check is the
\* dial's (a Success exactly when the dial and the close succeeded), and a
\* probe that measured nothing leaves -1 as its NetworkLatency.
C24_ProbeNeverReports ==
    \A l \in LoopIds :
        LET o == loops[l].o
            in == loops[l].net
        IN (/\ loops[l].pc \in {"dial", "send", "after"}
            /\ svc[o].Type \in {"tcp", "udp"} /\ in.dns = "ok")
           => /\ loops[l].pc = "dial" => loops[l].pubs = 0
              /\ loops[l].pc = "send" => loops[l].ret # "dial"
              /\ loops[l].pc \in {"send", "after"} => loops[l].pubs = 1
              /\ loops[l].pc = "send"
                 => /\ loops[l].out.kind = "S" <=> in.dial = "ok"
                    /\ in.probe # "reply"
                       => loops[l].out.NetworkLatency = NoLatency

\* C25: the registry NewScout returns when it is given a logger is not
\* running, no goroutine has been started for it, and every endpoint of the
\* list it was given (the endpoints it has wired to the shared stream) is in
\* its map under its identifier.
C25_NewScoutHoldsAll ==
    act.op = "init"
    => /\ ~scout.Running
       /\ \A l \in LoopIds : loops[l].pc = "none"
       /\ \A o \in Objs :
             svc[o].Responses = "shared" => scout.Services[svc[o].ID] = o

\* the same for the lists whose endpoints have different identifiers
C25_DistinctPart ==
    (/\ act.op = "init"
     /\ \A o, p \in Objs :
           (/\ svc[o].Responses = "shared" /\ svc[p].Responses = "shared"
            /\ svc[o].ID = svc[p].ID) => o = p)
    => /\ ~scout.Running
       /\ \A l \in LoopIds : loops[l].pc = "none"
       /\ \A o \in Objs :
             svc[o].Responses = "shared" => scout.Services[svc[o].ID] = o

\* C26: an endpoint whose every check meets a transient error, and whose
\* retries cannot be exhausted, publishes a Failure for each error and is
\* checked again and again: unless the caller calls Stop, the consumer
\* receives outcome after outcome, up to any number of them.
C26_FailuresOnly ==
    \A l \in LoopIds : loops[l].pc = "send" => loops[l].out.kind = "F"

C26_LoopGoesOn ==
    /\ []C26_FailuresOnly
    /\ <>(stats[1].n = MaxOutcomes \/ act.k > 0)

C26_Witness ==
    /\ stats[1].n = MaxOutcomes /\ stats[1].streak = MaxOutcomes
    /\ act.k = 0
    /\ svc[1].Retry /\ svc[1].RetryAttempts = 2
    /\ svc[1].Type = "http"

\* C27: an endpoint with RetryMax = 0 never publishes a Failure with
\* RetriesExhausted = true, and Failure never closes its Running channel:
\* with no Stop called by anyone else the channel stays open and the loop
\* never ends, however many checks have failed in a row.
C27_UnlimitedRetries ==
    \A l \in LoopIds :
        (Alive(loops[l]) /\ svc[loops[l].o].RetryMax = 0)
        => /\ ~loops[l].out.RetriesExhausted
           /\ stats[loops[l].o].exhaustedAt = 0
           /\ ~Signalled(World, loops[l].o)

C27_Witness ==
    \E l \in LoopIds :
        /\ loops[l].pc = "select"
        /\ svc[loops[l].o].RetryMax = 0 /\ svc[loops[l].o].Retry
        /\ stats[loops[l].o].streak = MaxOutcomes
        /\ svc[loops[l].o].RetryAttempts = MaxAttempts
        /\ IsRunning(World, loops[l].o)

\* C28: when Failure publishes its outcome, everything else it does has been
\* done: the exhausted flag of the outcome is the one it computed from the
\* attempts, the route trace has been added to TraceData (only when Trace is
\* set) and is in the outcome, Online is false and DownText is the issue.
\* The consumer that receives a Failure finds Online = false, and the one
\* that receives RetriesExhausted = true finds the endpoint not running.
C28_Step ==
    \A l \in LoopIds :
        LET o == loops[l].o IN
        /\ (/\ loops[l].pc \in {"check", "dial"}
            /\ loops'[l].pc = "send" /\ loops'[l].out.kind = "F")
           => /\ loops'[l].out.RetriesExhausted
                    <=> (/\ svc[o].RetryAttempts = svc[o].RetryMax
                         /\ svc[o].RetryMax # 0)
              /\ svc'[o].TraceData
                    = svc[o].TraceData
                        + (IF svc[o].Trace THEN loops'[l].net.nips ELSE 0)
              /\ loops'[l].out.TraceData = svc'[o].TraceData
              /\ ~svc'[o].Online
              /\ svc'[o].DownText = loops'[l].out.Issue
              /\ loops'[l].out.RetriesExhausted => ~IsRunning(World', o)
        /\ (/\ loops[l].pc = "send" /\ loops[l].out.kind = "F"
            /\ loops'[l].pc # "send")
           => /\ ~svc[o].Online
              /\ loops[l].out.RetriesExhausted => ~IsRunning(World, o)

C28_FailureOrder == [][C28_Step]_vars

\* an exhausted Failure with a route trace, after a Success
C28_Witness ==
    \E l \in LoopIds :
        /\ loops[l].pc = "send" /\ loops[l].out.kind = "F"
        /\ loops[l].out.RetriesExhausted
        /\ svc[loops[l].o].Trace /\ loops[l].out.TraceData = MaxTrace
        /\ ~svc[loops[l].o].Online
        /\ ~IsRunning(World, loops[l].o)

\* C29: the time limit a check gives to its network call is the configured
\* Timeout of the endpoint, for the HTTP request and the TCP/UDP dial as for
\* the ICMP round trip, and computing it does not overflow an int64.
C29_TimeoutAsConfigured ==
    \A l \in LoopIds :
        LET o == loops[l].o IN
        (loops[l].pc \in {"send", "after"} /\ svc[o].Type \in ProtocolKinds)
        => /\ loops[l].timeout = svc[o].Timeout
           /\ svc[o].Type # "icmp"
                 => ~Overflows(svc[o].Timeout, Int64(Second))

\* the ICMP check gives the configured Timeout to its round trip
C29_ICMPPart ==
    \A l \in LoopIds :
        (loops[l].pc \in {"send", "after"} /\ svc[loops[l].o].Type = "icmp")
        => loops[l].timeout = svc[loops[l].o].Timeout

\* the time limit of a dial whose product has wrapped to a negative int64
C29_Overflowed ==
    \E l \in LoopIds :
        /\ loops[l].pc = "send" /\ svc[loops[l].o].Type = "tcp"
        /\ svc[loops[l].o].Timeout = Seconds(MaxTimeoutSecs)
        /\ loops[l].timeout[8] >= 128

\* C30: whenever a call of the registry has returned, no lock of s.mux is
\* held, and no call of AddService or DelService is left blocked in Lock.
C30_LockReleased ==
    /\ scout.readers = 0
    /\ ~scout.waiting

\* ------------------------------------------ claims about loops per endpoint
\* the goroutines that run the loop of Service object o and have not left it
LoopsOf(o) == { l \in LoopIds : Alive(loops[l]) /\ loops[l].o = o }

\* C31: at most one monitoring loop is active per endpoint at any time, after
\* any sequence of StartScoutingServices, StopScoutingServices, AddService
\* (also of an endpoint already present) and DelService.
C31_OneLoopPerEndpoint ==
    \A o \in Objs : Cardinality(LoopsOf(o)) <= 1

\* the part of C31 about a stop followed by a start: a StartScoutingServices
\* that finds the registry stopped, and every endpoint with at most one loop,
\* leaves every endpoint with at most one loop
C31_RestartPart ==
    [][( /\ act'.op = "StartScoutingServices" /\ ~act'.b
         /\ C31_OneLoopPerEndpoint )
       => C31_OneLoopPerEndpoint']_vars

\* ------------------------------------------ claims about stopping
\* no goroutine is in a monitoring loop
AllStopped == \A l \in LoopIds : ~Alive(loops[l])

\* C32: after StopScoutingServices has returned on a running registry (the
\* second call of this specification), every loop eventually reaches Stopped,
\* and so publishes nothing more; also when the stop comes right after the
\* start, before a spawned loop has allocated its cancellation signal.
C32_StopReachesAll == (act.k = 2) ~> AllStopped

\* the part of C32 about loops that had allocated their signal when the stop
\* was called: they all reach Stopped
C32_AllocatedPart ==
    ( /\ act.op = "StopScoutingServices"
      /\ \A l \in LoopIds : Alive(loops[l]) => loops[l].pc # "start" )
    ~> AllStopped

\* ------------------------------------------ claims about the retry counter
\* C33: whenever RetryMax > 0, the retry attempt counter of an endpoint (of
\* a kind that has a checker) is never above RetryMax.
C33_AttemptsWithinMax ==
    \A o \in Objs :
        (svc[o].Type \in ProtocolKinds /\ svc[o].RetryMax > 0)
        => svc[o].RetryAttempts <= svc[o].RetryMax

\* ------------------------------------------ claims about the signal
\* C34: the cancellation signal of an endpoint is closed at most once: the
\* close(s.Running) of a Stop made by DelService never finds the channel
\* already closed by the Stop made inside Failure on exhaustion.
C34_Step ==
    \A t \in CallerIds :
        (callers[t].pc = "del.close" /\ callers'[t].pc # "del.close")
        => SignalOpen(World, scout.Services[callers[t].arg])

C34_ClosedOnce == [][C34_Step]_vars

\* ------------------------------------------ claims about starting all loops
\* the number of goroutines spawned to run the loop of Service object o
Started(o) ==
    Cardinality({ l \in LoopIds : loops[l].pc # "none" /\ loops[l].o = o })

\* StartScoutingServices has returned and the registry is running
StartReturned ==
    scout.Running /\ \A t \in CallerIds : callers[t].pc # "start.range"

\* C35: once StartScoutingServices has returned and the registry is running,
\* every endpoint in the map has had its loop started exactly once, under any
\* interleaving of AddService with StartScoutingServices.
C35_StartedExactlyOnce ==
    StartReturned =>
        \A u \in Keys(World) : Started(scout.Services[u]) = 1

\* the part of C35 about skipping: no endpoint in the map is left without a
\* loop
C35_NotSkippedPart ==
    StartReturned =>
        \A u \in Keys(World) : Started(scout.Services[u]) >= 1

====
